---- MODULE Spec2Model ----
(***************************************************************************)
(* Verification model of the advanced-webcam-pwa core: the per-device      *)
(* settings store and its hardware reconciliation pass, the face-tracking  *)
(* controller, and the render / segmentation / face-mesh loops of          *)
(* VideoPanel.                                                             *)
(*                                                                         *)
(* Numbers.  The program computes in IEEE doubles; the model computes in   *)
(* exact rational arithmetic.  A number is a record [num, den] in lowest   *)
(* terms with den > 0; the decimal literals of the source (0.08, 0.4, 0.1, *)
(* 0.005, 0.01) are the rationals they denote.  The zoom unit conversion,  *)
(* where the rounding of doubles is the question, is computed in doubles   *)
(* (specification SpecZoom).                                               *)
(***************************************************************************)
EXTENDS Integers, Sequences, FiniteSets, TLC

(***************************************************************************)
(* Bounds of the model (not program constants): external events of the     *)
(* settings machine, passes in flight at once, events on the mounted       *)
(* panel, video time in milliseconds, ticks of the tracking controller.    *)
(***************************************************************************)
MaxEvents == 2
MaxPasses == 2
MaxPanelEvents == 3
MaxVideoTime == 300
MaxTicks == 3

(***************************************************************************)
(* Rational arithmetic.                                                    *)
(***************************************************************************)
Abs(x) == IF x < 0 THEN -x ELSE x

RECURSIVE GCD(_, _)
GCD(a, b) == IF b = 0 THEN a ELSE GCD(b, a % b)

LCM(a, b) == (a \div GCD(a, b)) * b

Rat(n, d) ==
  LET s == IF d < 0 THEN -1 ELSE 1
      g == GCD(Abs(n), Abs(d))
  IN  [num |-> (s * n) \div g, den |-> (s * d) \div g]

Q(i) == [num |-> i, den |-> 1]

QAdd(a, b) ==
  LET l == LCM(a.den, b.den)
  IN  Rat(a.num * (l \div a.den) + b.num * (l \div b.den), l)

QNeg(a) == [num |-> -a.num, den |-> a.den]

QSub(a, b) == QAdd(a, QNeg(b))

QMul(a, b) ==
  LET g1 == GCD(Abs(a.num), b.den)
      g2 == GCD(Abs(b.num), a.den)
  IN  IF a.num = 0 \/ b.num = 0 THEN Q(0)
      ELSE Rat((a.num \div g1) * (b.num \div g2), (a.den \div g2) * (b.den \div g1))

QDiv(a, b) == QMul(a, IF b.num < 0 THEN [num |-> -b.den, den |-> -b.num]
                                   ELSE [num |-> b.den, den |-> b.num])

QLess(a, b) ==
  LET l == LCM(a.den, b.den)
  IN  a.num * (l \div a.den) < b.num * (l \div b.den)

QLeq(a, b) == ~QLess(b, a)

QAbs(a) == [num |-> Abs(a.num), den |-> a.den]

\* Math.max and Math.min
QMax(a, b) == IF QLess(a, b) THEN b ELSE a
QMin(a, b) == IF QLess(b, a) THEN b ELSE a

NULL == "null"

(***************************************************************************)
(* Setting values.  A value carries its JavaScript type: t = "num" for a   *)
(* number (num/den), t = "str" for a string (s).                           *)
(***************************************************************************)
Num(q) == [t |-> "num", num |-> q.num, den |-> q.den, s |-> ""]
Str(x) == [t |-> "str", num |-> 0, den |-> 1, s |-> x]
QOf(v) == [num |-> v.num, den |-> v.den]

Devices == {"camA", "camB"}

\* The fields of CameraSettings the model keeps, in Object.keys order.
Controls ==
  <<"brightness", "hue", "exposureMode", "zoom", "pan", "tilt",
    "faceSmoothing", "portraitLighting">>

ControlSet == {Controls[i] : i \in 1..Len(Controls)}

DEFAULT_SETTINGS ==
  [brightness |-> Num(Q(128)), hue |-> Num(Q(0)),
   exposureMode |-> Str("continuous"),
   zoom |-> Num(Q(100)), pan |-> Num(Q(0)), tilt |-> Num(Q(0)),
   faceSmoothing |-> Num(Q(0)), portraitLighting |-> Num(Q(0))]

\* useWebcam.getConstraintName: control name -> hardware constraint name.
getConstraintName(controlName) ==
  CASE controlName = "brightness" -> "brightness"
    [] controlName = "contrast" -> "contrast"
    [] controlName = "saturation" -> "saturation"
    [] controlName = "sharpness" -> "sharpness"
    [] controlName = "whiteBalanceTemperature" -> "colorTemperature"
    [] controlName = "exposureCompensation" -> "exposureCompensation"
    [] controlName = "iso" -> "iso"
    [] controlName = "zoom" -> "zoom"
    [] controlName = "pan" -> "pan"
    [] controlName = "tilt" -> "tilt"
    [] controlName = "exposureMode" -> "exposureMode"
    [] controlName = "whiteBalanceMode" -> "whiteBalanceMode"
    [] controlName = "focusMode" -> "focusMode"
    [] OTHER -> NULL

(***************************************************************************)
(* What track.getCapabilities() reports, per device (the camera driver is  *)
(* an external collaborator; these are the two devices of the model).      *)
(* camA reports a brightness range only (zoom is done in software); camB   *)
(* is a PTZ camera whose zoom range is [2, 5] in hardware units and which  *)
(* supports only the continuous exposure mode.                             *)
(***************************************************************************)
Range(lo, hi) == [kind |-> "range", min |-> lo, max |-> hi, values |-> {}]
List(vs) == [kind |-> "list", min |-> Q(0), max |-> Q(0), values |-> vs]

CapsOf(d) ==
  IF d = "camA"
  THEN [brightness |-> Range(Q(0), Q(255))]
  ELSE [exposureMode |-> List({"continuous"}),
        zoom |-> Range(Q(2), Q(5)),
        pan |-> Range(Q(-100), Q(100))]

\* useCameraSettings.clampToRange / the inline Math.max(Math.min()) of WebcamApp
clampToRange(value, range) == QMax(range.min, QMin(range.max, value))

\* The drift threshold 0.01 of the apply pass.
DriftThreshold == Rat(1, 100)

\* changedSettings[control] = finalUIValue  (a partial settings object is a
\* set of <<key, value>> pairs with at most one pair per key)
SetKey(partial, key, value) ==
  {kv \in partial : kv[1] # key} \cup {<<key, value>>}

Keys(partial) == {kv[1] : kv \in partial}

ValueAt(partial, key) == (CHOOSE kv \in partial : kv[1] = key)[2]

\* { ...current, ...partial }
Merge(current, partial) ==
  [k \in DOMAIN current |->
     IF k \in Keys(partial) THEN ValueAt(partial, k) ELSE current[k]]

\* (mutation of ClampControl: the drift is measured against the value in
\* hardware units)
ClampControlHardwareDrift(v, capability, control, changedSettings) ==
  LET valueToClamp == IF control = "zoom" THEN QDiv(QOf(v), Q(100)) ELSE QOf(v)
      clampedValue == clampToRange(valueToClamp, capability)
      finalUIValue == IF control = "zoom" THEN QMul(clampedValue, Q(100))
                                          ELSE clampedValue
      staged == IF QLess(DriftThreshold, QAbs(QSub(clampedValue, QOf(v))))
                THEN SetKey(changedSettings, control, Num(finalUIValue))
                ELSE changedSettings
  IN [apply |-> TRUE, value |-> Num(clampedValue), changed |-> staged]

\* (mutation of ClampControl: zoom is clamped in UI units, without the
\* conversion to hardware units)
ClampControlUIUnits(v, capability, control, changedSettings) ==
  LET clampedValue == clampToRange(QOf(v), capability)
      staged == IF QLess(DriftThreshold, QAbs(QSub(clampedValue, QOf(v))))
                THEN SetKey(changedSettings, control, Num(clampedValue))
                ELSE changedSettings
  IN [apply |-> TRUE, value |-> Num(clampedValue), changed |-> staged]

(***************************************************************************)
(* The numeric branch of the loop body: clamp the requested value into the *)
(* capability range (zoom in hardware units), stage a correction when the  *)
(* clamped UI value drifts from the request by more than 0.01, and apply   *)
(* the clamped value.                                                      *)
(***************************************************************************)
ClampControl(v, capability, control, changedSettings) ==
  LET valueToClamp == IF control = "zoom" THEN QDiv(QOf(v), Q(100)) ELSE QOf(v)
      clampedValue == clampToRange(valueToClamp, capability)
      finalUIValue == IF control = "zoom" THEN QMul(clampedValue, Q(100))
                                          ELSE clampedValue
      staged == IF QLess(DriftThreshold, QAbs(QSub(finalUIValue, QOf(v))))
                THEN SetKey(changedSettings, control, Num(finalUIValue))
                ELSE changedSettings
  IN [apply |-> TRUE, value |-> Num(clampedValue), changed |-> staged]

\* (mutation of ProcessControl: an unsupported mode is applied all the same)
ProcessControlAnyMode(snap, caps, control, changedSettings) ==
  LET constraintName == getConstraintName(control)
  IN
  IF constraintName = NULL \/ constraintName \notin DOMAIN caps
  THEN [apply |-> FALSE, value |-> snap[control], changed |-> changedSettings]
  ELSE IF snap[control].t = "num" /\ caps[constraintName].kind = "range"
  THEN ClampControl(snap[control], caps[constraintName], control, changedSettings)
  ELSE [apply |-> TRUE, value |-> snap[control], changed |-> changedSettings]

(***************************************************************************)
(* One iteration of the for-loop of applySettings / applyAndClampSettings  *)
(* for `control`: the result says whether the iteration reaches            *)
(* applyHardwareConstraint (apply) and with which value, and gives the     *)
(* staged corrections afterwards.                                          *)
(***************************************************************************)
ProcessControl(snap, caps, control, changedSettings) ==
  LET constraintName == getConstraintName(control)
      skip == [apply |-> FALSE, value |-> snap[control], changed |-> changedSettings]
  IN
  IF constraintName = NULL \/ constraintName \notin DOMAIN caps THEN skip
  ELSE
    LET capability == caps[constraintName]
        v == snap[control]
    IN
    IF v.t = "num" /\ capability.kind = "range"
    THEN ClampControl(v, capability, control, changedSettings)
    ELSE IF v.t = "str" /\ capability.kind = "list" /\ v.s \notin capability.values
    THEN skip
    ELSE [apply |-> TRUE, value |-> v, changed |-> changedSettings]

NoCall == [control |-> NULL, value |-> Str(""), track |-> NULL]

(***************************************************************************)
(* The synchronous stretch of the pass from control index i up to the next *)
(* await: either the loop reaches applyHardwareConstraint for a control    *)
(* (call.control) or it runs off the end of the control list.              *)
(***************************************************************************)
RECURSIVE Scan(_, _, _, _, _)
Scan(snap, caps, i, changedSettings, track) ==
  IF i > Len(Controls)
  THEN [idx |-> i, changed |-> changedSettings, call |-> NoCall]
  ELSE LET r == ProcessControl(snap, caps, Controls[i], changedSettings)
       IN  IF r.apply
           THEN [idx |-> i, changed |-> r.changed,
                 call |-> [control |-> Controls[i], value |-> r.value, track |-> track]]
           ELSE Scan(snap, caps, i + 1, r.changed, track)

(***************************************************************************)
(* Face-tracking controller (the inline computation of renderFrame).       *)
(***************************************************************************)
SMOOTHING_FACTOR == Rat(8, 100)
TARGET_FACE_HEIGHT_RATIO == Rat(4, 10)
PAN_TILT_SENSITIVITY == Rat(4, 10)
ZOOM_ADJUSTMENT_FACTOR == Rat(1, 10)
HARDWARE_ZOOM_ADJUSTMENT_FACTOR == Rat(5, 1000)
MIN_ZOOM == Q(100)
MAX_ZOOM == Q(400)
PAN_MIN == Q(-180)
PAN_MAX == Q(180)
TILT_MIN == Q(-90)
TILT_MAX == Q(90)

\* Intrinsic size of the video the model plays.
Video == [width |-> 100, height |-> 100]

Box(x, y, w, h) == [originX |-> x, originY |-> y, width |-> w, height |-> h]

\* (mutation of TrackTargets: the pan and tilt targets are not clamped)
TrackTargetsUnclamped(boundingBox, videoWidth, videoHeight, pan, tilt, zoom, isHardwareZoom, caps) ==
  LET targetHeight == QMul(Q(videoHeight), TARGET_FACE_HEIGHT_RATIO)
      heightError == QSub(targetHeight, Q(boundingBox.height))
      targetZoom ==
        IF isHardwareZoom /\ "zoom" \in DOMAIN caps
        THEN QMul(QMax(caps.zoom.min,
                       QMin(caps.zoom.max,
                            QAdd(QDiv(zoom, Q(100)),
                                 QMul(heightError, HARDWARE_ZOOM_ADJUSTMENT_FACTOR)))),
                  Q(100))
        ELSE QMax(MIN_ZOOM,
                  QMin(MAX_ZOOM, QAdd(zoom, QMul(heightError, ZOOM_ADJUSTMENT_FACTOR))))
      faceCenterX == QAdd(Q(boundingBox.originX), QDiv(Q(boundingBox.width), Q(2)))
      errorX == QSub(faceCenterX, QDiv(Q(videoWidth), Q(2)))
      targetPan ==
        QSub(pan, QMul(QMul(QDiv(errorX, Q(videoWidth)), Q(180)), PAN_TILT_SENSITIVITY))
      faceCenterY == QAdd(Q(boundingBox.originY), QDiv(Q(boundingBox.height), Q(2)))
      errorY == QSub(faceCenterY, QDiv(Q(videoHeight), Q(2)))
      targetTilt ==
        QAdd(tilt, QMul(QMul(QDiv(errorY, Q(videoHeight)), Q(90)), PAN_TILT_SENSITIVITY))
  IN [pan |-> targetPan, tilt |-> targetTilt, zoom |-> targetZoom]

\* target pan/tilt/zoom of one tick: VideoPanel.tsx lines 381-400
TrackTargets(boundingBox, videoWidth, videoHeight, pan, tilt, zoom, isHardwareZoom, caps) ==
  LET targetHeight == QMul(Q(videoHeight), TARGET_FACE_HEIGHT_RATIO)
      heightError == QSub(targetHeight, Q(boundingBox.height))
      targetZoom ==
        IF isHardwareZoom /\ "zoom" \in DOMAIN caps
        THEN QMul(QMax(caps.zoom.min,
                       QMin(caps.zoom.max,
                            QAdd(QDiv(zoom, Q(100)),
                                 QMul(heightError, HARDWARE_ZOOM_ADJUSTMENT_FACTOR)))),
                  Q(100))
        ELSE QMax(MIN_ZOOM,
                  QMin(MAX_ZOOM, QAdd(zoom, QMul(heightError, ZOOM_ADJUSTMENT_FACTOR))))
      faceCenterX == QAdd(Q(boundingBox.originX), QDiv(Q(boundingBox.width), Q(2)))
      errorX == QSub(faceCenterX, QDiv(Q(videoWidth), Q(2)))
      targetPan ==
        QMax(PAN_MIN,
             QMin(PAN_MAX,
                  QSub(pan, QMul(QMul(QDiv(errorX, Q(videoWidth)), Q(180)),
                                 PAN_TILT_SENSITIVITY))))
      faceCenterY == QAdd(Q(boundingBox.originY), QDiv(Q(boundingBox.height), Q(2)))
      errorY == QSub(faceCenterY, QDiv(Q(videoHeight), Q(2)))
      targetTilt ==
        QMax(TILT_MIN,
             QMin(TILT_MAX,
                  QAdd(tilt, QMul(QMul(QDiv(errorY, Q(videoHeight)), Q(90)),
                                  PAN_TILT_SENSITIVITY))))
  IN [pan |-> targetPan, tilt |-> targetTilt, zoom |-> targetZoom]

\* current + (target - current) * SMOOTHING_FACTOR
Smooth(current, target) == QAdd(current, QMul(QSub(target, current), SMOOTHING_FACTOR))

\* the object handed to onSettingsChange: VideoPanel.tsx lines 402-406
TrackAdjust(boundingBox, videoWidth, videoHeight, settings, isHardwareZoom, caps) ==
  LET pan == QOf(settings.pan)
      tilt == QOf(settings.tilt)
      zoom == QOf(settings.zoom)
      tg == TrackTargets(boundingBox, videoWidth, videoHeight, pan, tilt, zoom,
                         isHardwareZoom, caps)
  IN {<<"pan", Num(Smooth(pan, tg.pan))>>,
      <<"tilt", Num(Smooth(tilt, tg.tilt))>>,
      <<"zoom", Num(Smooth(zoom, tg.zoom))>>}

(***************************************************************************)
(* State.                                                                  *)
(***************************************************************************)
VARIABLES
  variant,          \* which reconciliation code is mounted: "hook" = useCameraSettings,
                    \* "app" = the effect of WebcamApp
  settingsByCamera, \* Map<deviceId, CameraSettings>
  currentCameraId,  \* useWebcam state
  capabilities,     \* the device whose getCapabilities() result is held, or NULL
  streamRef,        \* the device of the live MediaStream, or NULL
  applyingRef,      \* useCameraSettings reentrancy flag
  applyDirty,       \* a dependency of the apply effect changed since it last ran
  passes,           \* the apply passes suspended at an await, each with the
                    \* hardware calls it has made so far
  applied,          \* per constraint, the value of the latest applyConstraints
                    \* call on the track of the live stream
  nEvents,          \* number of external events so far (camera starts, user
                    \* updates, tracking writes; on the mounted panel: toggles,
                    \* mode and slider changes, stream stops and restarts)
  last,             \* what the last step did
  \* VideoPanel
  isFaceTrackingActive, \* WebcamApp state, a prop of VideoPanel
  blurMode,         \* WebcamApp state, a prop of VideoPanel
  mounted,          \* VideoPanel is mounted
  committed,        \* the props the effects of VideoPanel last ran with
  renderDirty,      \* the settings object was replaced since the last commit
  videoTime,        \* videoElement.currentTime, in milliseconds
  segLoops,         \* the segmentationLoop closures that can still run
  meshLoops,        \* the faceMeshLoop closures that can still run
  segmentationMaskRef, \* the mask cell
  faceMeshRef,      \* the landmark cell
  rafQueue,         \* the renderFrame callbacks requestAnimationFrame holds
  overlay,          \* what the overlay canvas shows
  detectedAt,       \* video time of the latest face-detection run since
                    \* tracking was switched on, -1 when there is none
  \* tracking controller on a fixed bounding box
  trk,              \* the box, the number of ticks so far, the targets of the
                    \* first tick, and pan/tilt/zoom before the latest tick
  \* zoom unit conversion in double precision
  zoomTrip,         \* a UI zoom value and a hardware range, and once converted
                    \* the results of the dual conversion and of the direct clamp
  \* utility functions
  fnCall,           \* a call of a utility function: its name and arguments,
                    \* and once it has returned, its result
  \* AI services, aiServiceManager, useAIModels, useWebcam
  services,         \* per service its module variables: isInitialized, whether
                    \* the model variable is set, initializationError; and the
                    \* number of model instances created by the initialize
                    \* calls made since the service was last destroyed; and
                    \* whether it was destroyed with no initialize call since
  loads,            \* the initialize calls whose promise has not been consumed
  manager,          \* the run of initializeAllServices: the service it waits
                    \* for, the progress reports, the error list, the result
  hook,             \* useAIModels: initRef, isInitializing, isInitialized
  webcam,           \* useWebcam: hasPermission, isStarting, whether a stream is
                    \* held, and the getUserMedia call under way
  directCalls,      \* number of initialize / reinitialize calls made so far
                    \* by callers other than initializeAllServices
  \* service worker
  sw,               \* the caches (entries with cache name, URL and response
                    \* status) and the latest fetch event with its outcome
  \* useWebcam, stream by stream
  media             \* streamRef.current, the MediaStreams obtained so far and
                    \* the startCamera calls awaiting getUserMedia

settingsVars ==
  <<variant, settingsByCamera, currentCameraId, capabilities, streamRef,
    applyingRef, applyDirty, passes, applied, nEvents>>

panelVars ==
  <<isFaceTrackingActive, blurMode, mounted, committed, renderDirty, videoTime,
    segLoops, meshLoops, segmentationMaskRef, faceMeshRef, rafQueue, overlay,
    detectedAt>>

\* The variables outside the settings machine, the panel and the controller.
aiVars == <<services, loads, manager, hook, webcam, directCalls>>

auxVars == <<fnCall, aiVars, sw, media>>

vars == <<settingsVars, last, panelVars, trk, zoomTrip, auxVars>>

\* `last` after a step that completes nothing
Quiet == [op |-> "none"]

\* settingsByCamera.get(id) || DEFAULT_SETTINGS
SettingsOf(store, id) == IF id \in DOMAIN store THEN store[id] ELSE DEFAULT_SETTINGS

\* next.set(id, value) on a copy of the map
MapSet(store, id, value) ==
  [d \in DOMAIN store \cup {id} |-> IF d = id THEN value ELSE store[d]]

\* (mutation of UpdateStore: the partial is merged into the defaults)
UpdateStoreFromDefaults(store, id, partial) ==
  MapSet(store, id, Merge(DEFAULT_SETTINGS, partial))

\* updateSettings / updateCurrentSettings and the correction write of a pass
UpdateStore(store, id, partial) == MapSet(store, id, Merge(SettingsOf(store, id), partial))

\* useWebcam.isHardwareControl
isHardwareControl(caps, controlName) ==
  LET constraintName == getConstraintName(controlName)
  IN  constraintName # NULL /\ caps # NULL /\ constraintName \in DOMAIN CapsOf(caps)

\* The overlay canvas: clear, or showing the box of one face.
EmptyOverlay == [drawn |-> FALSE, boundingBox |-> Box(0, 0, 0, 0)]

\* The props the effects of VideoPanel depend on by value.
Props(stream, mode, tracking, settings) ==
  [stream |-> stream, blurMode |-> mode, isFaceTrackingActive |-> tracking,
   faceSmoothing |-> QOf(settings.faceSmoothing)]

\* VideoPanel is not on the page.
PanelUnmounted ==
  /\ isFaceTrackingActive = FALSE
  /\ blurMode = "none"
  /\ mounted = FALSE
  /\ committed = Props(NULL, "none", FALSE, DEFAULT_SETTINGS)
  /\ renderDirty = FALSE
  /\ videoTime = 0
  /\ segLoops = <<>>
  /\ meshLoops = <<>>
  /\ segmentationMaskRef = NULL
  /\ faceMeshRef = NULL
  /\ rafQueue = {}
  /\ overlay = EmptyOverlay
  /\ detectedAt = -1

PanTiltZoom(pan, tilt, zoom) == [pan |-> pan, tilt |-> tilt, zoom |-> zoom]

\* No zoom conversion is under way.
NoTrip == [done |-> FALSE, z |-> 0]

\* No utility function is being called.
\* The AI services in the order initializeAllServices takes them.
ServiceOrder == <<"faceDetector", "segmentation", "faceMesh">>

Services == {ServiceOrder[i] : i \in 1..Len(ServiceOrder)}

\* The module variables of a service as declared: model null, isInitialized
\* false, initializationError null.
ServiceDeclared ==
  [isInitialized |-> FALSE, model |-> FALSE, initializationError |-> FALSE,
   created |-> 0, destroyed |-> FALSE]

\* initializeAllServices has not been called.
ManagerIdle ==
  [pc |-> "idle", progress |-> <<>>, errors |-> <<>>,
   attempts |-> [s \in Services |-> 0], rejected |-> {},
   result |-> [success |-> FALSE, errors |-> <<>>]]

\* The page has loaded: useState(true) for isInitializing, useState(false)
\* for isInitialized and hasPermission, no stream, nothing under way.
AIIdle ==
  /\ services = [s \in Services |-> ServiceDeclared]
  /\ loads = <<>>
  /\ manager = ManagerIdle
  /\ hook = [initRef |-> FALSE, isInitializing |-> TRUE, isInitialized |-> FALSE,
             errors |-> <<>>]
  /\ webcam = [hasPermission |-> FALSE, isStarting |-> FALSE, stream |-> FALSE,
               pending |-> "none"]
  /\ directCalls = 0

\* No response / no fetch event.
NoResponse == [from |-> "none", status |-> 0]

\* The service worker has handled no fetch event and holds no cache.
SWIdle == sw = [caches |-> {}, handled |-> FALSE]

\* useWebcam before any startCamera call: no stream, nothing in flight.
MediaIdle ==
  media = [streamRef |-> 0, streams |-> <<>>, calls |-> <<>>, nCalls |-> 0,
           isStarting |-> FALSE, hasPermission |-> FALSE]

AuxIdle == fnCall = [fn |-> "none", done |-> FALSE] /\ AIIdle /\ SWIdle /\ MediaIdle

\* No run of the controller on a fixed box is under way.
TrkIdle ==
  [n |-> 0, boundingBox |-> Box(0, 0, 0, 0),
   first |-> PanTiltZoom(Q(0), Q(0), Q(0)),
   prev |-> PanTiltZoom(Q(0), Q(0), Q(0))]

SettingsInit ==
  /\ PanelUnmounted
  /\ trk = TrkIdle
  /\ zoomTrip = NoTrip
  /\ AuxIdle
  /\ variant \in {"hook", "app"}
  /\ settingsByCamera = [d \in {} |-> DEFAULT_SETTINGS]
  /\ currentCameraId = NULL
  /\ capabilities = NULL
  /\ streamRef = NULL
  /\ applyingRef = FALSE
  /\ applyDirty = FALSE
  /\ passes = <<>>
  /\ applied = {}
  /\ nEvents = 0
  /\ last = Quiet

\* useWebcam.startCamera once getUserMedia has resolved
StartCamera(deviceId) ==
  /\ deviceId # currentCameraId
  /\ nEvents < MaxEvents
  /\ nEvents' = nEvents + 1
  /\ streamRef' = deviceId
  /\ currentCameraId' = deviceId
  /\ capabilities' = deviceId
  /\ applyDirty' = TRUE
  /\ applied' = {}
  /\ last' = Quiet
  /\ UNCHANGED <<variant, settingsByCamera, applyingRef, passes, panelVars, trk, zoomTrip, auxVars>>

\* What the user can send through onSettingsChange (sliders, selects,
\* presets, imported settings files).
UserPartials ==
  { {<<"brightness", Num(Rat(51001, 200))>>, <<"pan", Num(Q(180))>>,
     <<"zoom", Num(Q(150))>>, <<"exposureMode", Str("manual")>>},
    {<<"zoom", Num(Q(400))>>} }

\* updateSettings (hook) / updateCurrentSettings (WebcamApp) called by the UI
UserUpdate(newSettings) ==
  /\ currentCameraId # NULL
  /\ nEvents < MaxEvents
  /\ nEvents' = nEvents + 1
  /\ settingsByCamera' = UpdateStore(settingsByCamera, currentCameraId, newSettings)
  /\ applyDirty' = TRUE
  /\ last' = [op |-> "update", dev |-> currentCameraId, partial |-> newSettings]
  /\ UNCHANGED <<variant, currentCameraId, capabilities, streamRef, applyingRef,
                 passes, applied, panelVars, trk, zoomTrip, auxVars>>

\* Boxes the detector reports in the settings specification.
TrackBoxes == {Box(70, 40, 20, 20)}

\* a tracking tick of the render loop hands its output to onSettingsChange
TrackWrite(boundingBox) ==
  /\ currentCameraId # NULL
  /\ streamRef # NULL
  /\ nEvents < MaxEvents
  /\ nEvents' = nEvents + 1
  /\ LET settings == SettingsOf(settingsByCamera, currentCameraId)
         adj == TrackAdjust(boundingBox, Video.width, Video.height, settings,
                            isHardwareControl(capabilities, "zoom"),
                            CapsOf(capabilities))
     IN /\ settingsByCamera' = UpdateStore(settingsByCamera, currentCameraId, adj)
        /\ last' = Quiet
  /\ applyDirty' = TRUE
  /\ UNCHANGED <<variant, currentCameraId, capabilities, streamRef, applyingRef,
                 passes, applied, panelVars, trk, zoomTrip, auxVars>>

\* The early return at the top of the apply effect:
\*   hook: if (!currentCameraId || !capabilities || applyingRef.current) return;
\*   app:  if (!stream || !capabilities || !currentCameraId) return;
EffectReturnsEarly(v, cameraId, caps, stream, applying) ==
  IF v = "hook"
  THEN cameraId = NULL \/ caps = NULL \/ applying
  ELSE stream = NULL \/ caps = NULL \/ cameraId = NULL

\* (mutation of CorrectionBatches: one store update per corrected control)
RECURSIVE CorrectionBatchesPerKey(_)
CorrectionBatchesPerKey(changedSettings) ==
  IF changedSettings = {} THEN <<>>
  ELSE LET kv == CHOOSE x \in changedSettings : TRUE
       IN  <<{kv}>> \o CorrectionBatchesPerKey(changedSettings \ {kv})

\* The store updates a finished pass issues for its staged corrections:
\* one batched update when anything was staged, none otherwise.
CorrectionBatches(changedSettings) ==
  IF changedSettings = {} THEN <<>> ELSE <<changedSettings>>

RECURSIVE ApplyBatches(_, _, _)
ApplyBatches(store, id, batches) ==
  IF batches = <<>> THEN store
  ELSE ApplyBatches(UpdateStore(store, id, Head(batches)), id, Tail(batches))

RemoveAt(seq, i) == SubSeq(seq, 1, i - 1) \o SubSeq(seq, i + 1, Len(seq))

NewPass(dev, caps, snap, r) ==
  [dev |-> dev, caps |-> caps, snap |-> snap, idx |-> r.idx,
   changed |-> r.changed, call |-> r.call,
   calls |-> <<>>]

PassDone(p, changedSettings, calls) ==
  [op |-> "passDone", dev |-> p.dev, caps |-> p.caps, snap |-> p.snap,
   changed |-> changedSettings, calls |-> calls,
   batches |-> CorrectionBatches(changedSettings)]

(***************************************************************************)
(* React commits a render: the effects whose dependencies changed run.     *)
(* The init effect gives a camera without an entry its default settings;   *)
(* the apply effect starts a pass unless its guard returns early.  The     *)
(* pass runs synchronously up to its first await.                          *)
(***************************************************************************)
Commit ==
  /\ applyDirty
  /\ LET settings == SettingsOf(settingsByCamera, currentCameraId)
         needInit == currentCameraId # NULL /\ currentCameraId \notin DOMAIN settingsByCamera
         early == EffectReturnsEarly(variant, currentCameraId, capabilities,
                                     streamRef, applyingRef)
         r == Scan(settings, CapsOf(capabilities), 1, {}, streamRef)
     IN /\ early \/ Len(passes) < MaxPasses
        /\ settingsByCamera' =
             IF needInit THEN MapSet(settingsByCamera, currentCameraId, DEFAULT_SETTINGS)
                         ELSE settingsByCamera
        /\ applyDirty' = needInit
        /\ IF early
           THEN /\ UNCHANGED <<passes, applyingRef>>
                /\ last' = Quiet
           ELSE IF r.call.control = NULL
           THEN /\ UNCHANGED <<passes, applyingRef>>
                /\ last' = PassDone([dev |-> currentCameraId, caps |-> capabilities,
                                     snap |-> settings], r.changed, <<>>)
           ELSE /\ passes' = Append(passes, NewPass(currentCameraId, capabilities, settings, r))
                /\ applyingRef' = IF variant = "hook" THEN TRUE ELSE applyingRef
                /\ last' = Quiet
  /\ UNCHANGED <<variant, currentCameraId, capabilities, streamRef, applied, nEvents,
                 panelVars, trk, zoomTrip, auxVars>>

\* Controls whose constraint the track of the model may reject.
RejectedControls == {"zoom"}

\* useWebcam.applyHardwareConstraint: what one call does.  It returns without
\* touching a track when there is no stream or the constraint is not in the
\* capabilities it closed over; otherwise it calls track.applyConstraints on
\* the live stream's track, and a rejection is caught and logged: the caller
\* sees the same settled promise either way.
HardwareCall(call, caps, rejected) ==
  LET constraintName == getConstraintName(call.control)
      sent == call.track # NULL /\ constraintName # NULL /\ caps # NULL
              /\ constraintName \in DOMAIN CapsOf(caps)
  IN  [control |-> call.control, value |-> call.value,
       track |-> IF sent THEN call.track ELSE NULL,
       constraint |-> constraintName,
       rejected |-> sent /\ rejected]

\* (mutation of AfterCall: a rejected constraint ends the pass on the spot)
AfterCallAborts(p, rejected, stream) ==
  IF rejected
  THEN [idx |-> Len(Controls) + 1, changed |-> {}, call |-> NoCall]
  ELSE Scan(p.snap, CapsOf(p.caps), p.idx + 1, p.changed, stream)

\* `await applyHardwareConstraint(control, valueToApply)` of pass p returns:
\* the promise resolves whether or not the track rejected the constraint, and
\* the loop goes on with the next control.
AfterCall(p, rejected, stream) ==
  Scan(p.snap, CapsOf(p.caps), p.idx + 1, p.changed, stream)

\* The constraint values of the live track after a call has been made.
Applied(current, call, stream) ==
  IF call.track # NULL /\ call.track = stream
  THEN SetKey(current, call.constraint, call.value)
  ELSE current

(***************************************************************************)
(* The awaited applyHardwareConstraint of pass i settles (the track        *)
(* accepted the constraint or rejected it) and the pass runs on to its     *)
(* next await or to its end, where it writes the staged corrections.       *)
(***************************************************************************)
PassResume(i, rejected) ==
  /\ i \in 1..Len(passes)
  /\ rejected => passes[i].call.control \in RejectedControls
  /\ LET p == passes[i]
         call == HardwareCall(p.call, p.caps, rejected)
         r == AfterCall(p, call.rejected, streamRef)
         calls == Append(p.calls, call)
     IN /\ rejected => call.rejected
        /\ applied' = Applied(applied, call, streamRef)
        /\ IF r.call.control # NULL
           THEN /\ passes' = [passes EXCEPT ![i] =
                               [p EXCEPT !.idx = r.idx, !.changed = r.changed,
                                         !.call = r.call, !.calls = calls]]
                /\ last' = Quiet
                /\ UNCHANGED <<settingsByCamera, applyingRef, applyDirty>>
           ELSE /\ passes' = RemoveAt(passes, i)
                /\ settingsByCamera' =
                     ApplyBatches(settingsByCamera, p.dev, CorrectionBatches(r.changed))
                /\ applyDirty' = (applyDirty \/ (r.changed # {} /\ p.dev = currentCameraId))
                /\ applyingRef' = IF variant = "hook" THEN FALSE ELSE applyingRef
                /\ last' = PassDone(p, r.changed, calls)
  /\ UNCHANGED <<variant, currentCameraId, capabilities, streamRef, nEvents,
                 panelVars, trk, zoomTrip, auxVars>>

SettingsNext ==
  \/ \E d \in Devices : StartCamera(d)
  \/ \E partial \in UserPartials : UserUpdate(partial)
  \/ \E b \in TrackBoxes : TrackWrite(b)
  \/ Commit
  \/ \E i \in 1..MaxPasses, rejected \in BOOLEAN : PassResume(i, rejected)

(***************************************************************************)
(* VideoPanel.  The render loop (requestAnimationFrame), the segmentation  *)
(* loop and the face-mesh loop (setTimeout), each owned by one effect.     *)
(* Video time is in milliseconds: the gate of the source compares seconds, *)
(* timestamp > lastFaceDetectionTime + 0.1, which is the same comparison.  *)
(***************************************************************************)
FACE_DETECTION_INTERVAL_MS == 100

\* How far the video time moves between two steps of the model.
VideoSteps == {50, 100}

BlurModes == {"none", "portrait"}

\* The model never sets a generated background image.
aiBackgroundUrl == NULL

\* What detectFaces returns: null, or a result with a list of detections; a
\* detection carries a bounding box or none.
Face(x, y, w, h) == [hasBox |-> TRUE, boundingBox |-> Box(x, y, w, h)]
NoBoxFace == [hasBox |-> FALSE, boundingBox |-> Box(0, 0, 0, 0)]
Results(ds) == [isNull |-> FALSE, detections |-> ds]
NullResults == [isNull |-> TRUE, detections |-> <<>>]

DetectorResults ==
  { NullResults,
    Results(<<>>),
    Results(<<Face(10, 10, 30, 20), Face(60, 20, 30, 60), Face(40, 0, 20, 100)>>),
    Results(<<NoBoxFace, Face(70, 40, 20, 20)>>),
    Results(<<NoBoxFace>>) }

\* b.boundingBox?.width ?? 0
WidthOf(d) == IF d.hasBox THEN d.boundingBox.width ELSE 0

\* Array.prototype.sort with the comparator (a, b) => width(b) - width(a):
\* descending by width, and stable, so equal widths keep their order.
RECURSIVE InsertByWidth(_, _)
InsertByWidth(d, sorted) ==
  IF sorted = <<>> THEN <<d>>
  ELSE IF WidthOf(Head(sorted)) >= WidthOf(d)
       THEN <<Head(sorted)>> \o InsertByWidth(d, Tail(sorted))
       ELSE <<d>> \o sorted

RECURSIVE SortByWidth(_)
SortByWidth(ds) ==
  IF ds = <<>> THEN <<>>
  ELSE InsertByWidth(ds[Len(ds)], SortByWidth(SubSeq(ds, 1, Len(ds) - 1)))

AreaOf(d) == IF d.hasBox THEN d.boundingBox.width * d.boundingBox.height ELSE 0

\* (mutation of largestFace: the face of largest area)
largestFaceByArea(detections) ==
  detections[CHOOSE i \in 1..Len(detections) :
               \A j \in 1..Len(detections) :
                 \/ AreaOf(detections[j]) < AreaOf(detections[i])
                 \/ (AreaOf(detections[j]) = AreaOf(detections[i]) /\ i <= j)]

\* results.detections.sort(...)[0]
largestFace(detections) == SortByWidth(detections)[1]

\* (mutation of TrackingTick: the overlay is cleared only when a face is drawn)
TrackingTickKeepsOverlay(results, overlayBefore, settings, isHardwareZoom, caps) ==
  IF ~results.isNull /\ Len(results.detections) > 0
     /\ largestFace(results.detections).hasBox
  THEN [overlay |-> [drawn |-> TRUE,
                     boundingBox |-> largestFace(results.detections).boundingBox],
        update |-> TrackAdjust(largestFace(results.detections).boundingBox,
                               Video.width, Video.height, settings,
                               isHardwareZoom, caps)]
  ELSE [overlay |-> overlayBefore, update |-> {}]

(***************************************************************************)
(* The body of the try block of a detection tick, given what detectFaces   *)
(* returned: the overlay is cleared; when there is a detection, the        *)
(* largest face's box is stroked on the overlay (the model keeps the box,  *)
(* not its mapping to canvas pixels) and the controller's output is handed *)
(* to onSettingsChange (update; {} when onSettingsChange is not called).   *)
(***************************************************************************)
TrackingTick(results, overlayBefore, settings, isHardwareZoom, caps) ==
  LET cleared == EmptyOverlay
  IN
  IF ~results.isNull /\ Len(results.detections) > 0
  THEN LET face == largestFace(results.detections)
       IN  IF face.hasBox
           THEN [overlay |-> [drawn |-> TRUE, boundingBox |-> face.boundingBox],
                 update |-> TrackAdjust(face.boundingBox, Video.width, Video.height,
                                        settings, isHardwareZoom, caps)]
           ELSE [overlay |-> cleared, update |-> {}]
  ELSE [overlay |-> cleared, update |-> {}]

\* What the render effect closes over, with the closure's own
\* lastFaceDetectionTime.  inRef: the handle of its pending callback is the
\* one renderFrameRef holds.  live: the effect run has not been cleaned up.
Closure(stream, settings, tracking, mode, caps) ==
  [stream |-> stream, settings |-> settings, isFaceTrackingActive |-> tracking,
   blurMode |-> mode, isHardwareZoom |-> isHardwareControl(caps, "zoom"), capabilities |-> caps,
   lastFaceDetectionTime |-> 0, inRef |-> TRUE, live |-> TRUE]

\* The stages of a frame before face detection, and where an exception can
\* be raised in a frame.
DrawStages == {"base", "filters", "lighting", "transform"}
Faults == {"none", "detect"} \cup DrawStages

\* What the video element reports when a frame starts: playing with a size;
\* paused; ended; videoWidth = 0 (no dimensions yet); videoWidth > 0 with
\* videoHeight = 0.
VideoStates == {"playing", "paused", "ended", "noDimensions", "noHeight"}

\* videoElement.paused || videoElement.ended || videoElement.videoWidth === 0
Skips(video) == video \in {"paused", "ended", "noDimensions"}

\* (mutation of ReadCell: a producer's write lands between two reads of a frame)
ReadCellAfterWrite(cell, k) == IF k > 1 THEN "written" ELSE cell

\* The k-th read of a ref cell in one call of renderFrame.  renderFrame has no
\* await, so the whole call is one synchronous run and every read sees the
\* cell as it was when the call began.
ReadCell(cell, k) == cell

\* The reads of a cell by `if (on && cell.current) { const x = cell.current`
CellReads(on, cell) ==
  IF ~on THEN <<>>
  ELSE IF ReadCell(cell, 1) = NULL THEN <<ReadCell(cell, 1)>>
  ELSE <<ReadCell(cell, 1), ReadCell(cell, 2)>>

\* const needsSegmentation = blurMode === 'portrait' || !!aiBackgroundUrl
needsSegmentation(mode) == mode = "portrait" \/ aiBackgroundUrl # NULL

\* (mutation of BaseLayer: the composite is drawn whenever it is asked for)
BaseLayerOnRequest(maskReads) == IF Len(maskReads) >= 1 THEN "segmented" ELSE "raw"

\* Stage 1: the segmented composite when the mask cell was read and held a
\* mask (which is then read again and used), the raw video otherwise.
BaseLayer(maskReads) == IF Len(maskReads) = 2 THEN "segmented" ELSE "raw"

(***************************************************************************)
(* One call of renderFrame for closure c.  Inputs: what the video element  *)
(* reports; tempCanvas.getContext('2d') gave a context (tempCtx); a call   *)
(* of the stage `fault` raises an exception; the face detector is ready;   *)
(* what detectFaces returns; the mask cell and the landmark cell.  With a  *)
(* context, stage 3 reads drawWidth/offsetX outside the blocks that        *)
(* declare them, which raises a ReferenceError.  Only the detection stage  *)
(* has a try/catch.                                                        *)
(* Result: the stage that raised (threw), whether the next frame was       *)
(* requested (scheduled), whether the display canvas was drawn on (drew),  *)
(* the base layer chosen (base), the values read from the two cells,       *)
(* whether detection ran (detected), the closure's lastFaceDetectionTime,  *)
(* the overlay, and the onSettingsChange argument.                         *)
(***************************************************************************)
renderFrame(c, timestamp, overlayBefore, video, tempCtx, fault, ready, results, mask, landmarks) ==
  LET rearm == [threw |-> "none", scheduled |-> TRUE, drew |-> FALSE,
                base |-> "none", maskReads |-> <<>>, meshReads |-> <<>>,
                detected |-> FALSE,
                lastFaceDetectionTime |-> c.lastFaceDetectionTime,
                overlay |-> overlayBefore, update |-> {}]
      maskReads == CellReads(needsSegmentation(c.blurMode), mask)
      smoothReads ==
        IF fault = "base" THEN <<>>
        ELSE CellReads(QLess(Q(0), QOf(c.settings.faceSmoothing)), landmarks)
      lightReads ==
        IF fault \in {"base", "filters"} THEN <<>>
        ELSE CellReads(QLess(Q(0), QOf(c.settings.portraitLighting)), landmarks)
      drawn == [rearm EXCEPT !.drew = TRUE, !.base = BaseLayer(maskReads),
                             !.maskReads = maskReads,
                             !.meshReads = smoothReads \o lightReads]
  IN
  IF Skips(video) THEN rearm
  ELSE IF fault \in DrawStages \ {"transform"}
  THEN [drawn EXCEPT !.threw = fault, !.scheduled = FALSE]
  ELSE IF tempCtx \/ fault = "transform"
  THEN [drawn EXCEPT !.threw = "transform", !.scheduled = FALSE]
  ELSE IF /\ c.isFaceTrackingActive
          /\ ready
          /\ timestamp > c.lastFaceDetectionTime + FACE_DETECTION_INTERVAL_MS
  THEN IF fault = "detect"
       THEN [drawn EXCEPT !.threw = "detect", !.detected = TRUE,
                          !.lastFaceDetectionTime = timestamp,
                          !.overlay = EmptyOverlay]
       ELSE LET t == TrackingTick(results, overlayBefore, c.settings,
                                  c.isHardwareZoom, CapsOf(c.capabilities))
            IN  [drawn EXCEPT !.detected = TRUE,
                              !.lastFaceDetectionTime = timestamp,
                              !.overlay = t.overlay, !.update = t.update]
  ELSE IF ~c.isFaceTrackingActive
  THEN [drawn EXCEPT !.overlay = EmptyOverlay]
  ELSE drawn

\* The inputs of a frame.  renderFrame gives every result it can give on
\* these: each state of the video element, a temp context, a raising stage,
\* a detector that is not ready, and each detector result.  playing: the
\* timer loops test videoElement.paused || videoElement.ended only.
Input(video, tempCtx, fault, ready, results) ==
  [video |-> video, playing |-> video \notin {"paused", "ended"},
   tempCtx |-> tempCtx, fault |-> fault, ready |-> ready, results |-> results]

FrameInputs ==
  {Input(v, TRUE, "none", TRUE, NullResults) : v \in VideoStates}
  \cup {Input("playing", FALSE, "detect", TRUE, NullResults),
        Input("playing", FALSE, "none", FALSE, NullResults),
        Input("noHeight", FALSE, "none", TRUE, NullResults)}
  \cup {Input("playing", FALSE, f, TRUE, NullResults) : f \in DrawStages}
  \cup {Input("playing", FALSE, "none", TRUE, res) : res \in DetectorResults}

\* `last` after a call of renderFrame
FrameDone(c, r, timestamp, prevDetect, overlayBefore, in, mask, landmarks) ==
  [op |-> "frame", live |-> c.live, threw |-> r.threw, scheduled |-> r.scheduled,
   detected |-> r.detected, tracking |-> isFaceTrackingActive,
   active |-> c.isFaceTrackingActive, blurMode |-> c.blurMode,
   video |-> in.video, drew |-> r.drew, base |-> r.base,
   mask |-> mask, maskReads |-> r.maskReads,
   landmarks |-> landmarks, meshReads |-> r.meshReads,
   timestamp |-> timestamp, prevDetect |-> prevDetect,
   results |-> IF r.detected /\ r.threw = "none" THEN in.results ELSE NullResults,
   update |-> r.update, overlayBefore |-> overlayBefore,
   settings |-> c.settings, isHardwareZoom |-> c.isHardwareZoom,
   capabilities |-> c.capabilities]

\* requestAnimationFrame(renderFrame) by closure c: the new handle replaces
\* the one in renderFrameRef.
Request(queue, c) ==
  {[q EXCEPT !.inRef = FALSE] : q \in queue} \cup {[c EXCEPT !.inRef = TRUE]}

\* cleanup of the render effect: cancelAnimationFrame(renderFrameRef.current)
CancelFrame(queue) == {[q EXCEPT !.live = FALSE] : q \in {x \in queue : ~x.inRef}}

\* (mutation of StopLoop: the cleanup leaves isActive set)
StopLoopKeepsFlag(loop) == loop

\* isActive = false in the cleanup of a loop effect
StopLoop(loop) == [loop EXCEPT !.isActive = FALSE]

\* A loop closure.  pc: waiting for its timer, or awaiting the service call.
\* current: the effect run that started it has not been cleaned up.
StartLoop(playing) ==
  [isActive |-> TRUE, current |-> TRUE, pc |-> IF playing THEN "awaiting" ELSE "timer"]

\* cleanup of a loop effect: isActive = false; clearTimeout(timeoutId)
RECURSIVE CleanupLoops(_)
CleanupLoops(loops) ==
  IF loops = <<>> THEN <<>>
  ELSE LET l == Head(loops)
           rest == CleanupLoops(Tail(loops))
       IN  IF ~l.current THEN <<l>> \o rest
           ELSE IF l.pc = "timer" THEN rest
           ELSE <<[StopLoop(l) EXCEPT !.current = FALSE]>> \o rest

\* VideoPanel mounted on a started camera; its first renderFrame found the
\* video without dimensions and re-armed.
RenderInit ==
  /\ variant = "app"
  /\ \E d \in Devices :
       /\ currentCameraId = d
       /\ capabilities = d
       /\ streamRef = d
       /\ settingsByCamera = [x \in {d} |-> DEFAULT_SETTINGS]
       /\ committed = Props(d, "none", FALSE, DEFAULT_SETTINGS)
       /\ rafQueue = {Closure(d, DEFAULT_SETTINGS, FALSE, "none", d)}
  /\ applyingRef = FALSE
  /\ applyDirty = FALSE
  /\ passes = <<>>
  /\ applied = {}
  /\ nEvents = 0
  /\ last = Quiet
  /\ trk = TrkIdle
  /\ zoomTrip = NoTrip
  /\ AuxIdle
  /\ isFaceTrackingActive = FALSE
  /\ blurMode = "none"
  /\ mounted = TRUE
  /\ renderDirty = FALSE
  /\ videoTime = 0
  /\ segLoops = <<>>
  /\ meshLoops = <<>>
  /\ segmentationMaskRef = NULL
  /\ faceMeshRef = NULL
  /\ overlay = EmptyOverlay
  /\ detectedAt = -1

fixedVars ==
  <<variant, currentCameraId, capabilities, applyingRef, applyDirty, passes, applied, trk, zoomTrip, auxVars>>

\* onToggleFaceTracking: setIsFaceTrackingActive(prev => !prev)
ToggleFaceTracking ==
  /\ mounted
  /\ nEvents < MaxPanelEvents
  /\ nEvents' = nEvents + 1
  /\ isFaceTrackingActive' = ~isFaceTrackingActive
  /\ detectedAt' = IF isFaceTrackingActive THEN -1 ELSE detectedAt
  /\ last' = Quiet
  /\ UNCHANGED <<fixedVars, settingsByCamera, streamRef, blurMode, mounted, committed,
                 renderDirty, videoTime, segLoops, meshLoops, segmentationMaskRef,
                 faceMeshRef, rafQueue, overlay>>

\* setBlurMode(mode) from the controls
SetBlurMode(mode) ==
  /\ mounted
  /\ mode # blurMode
  /\ nEvents < MaxPanelEvents
  /\ nEvents' = nEvents + 1
  /\ blurMode' = mode
  /\ last' = Quiet
  /\ UNCHANGED <<fixedVars, settingsByCamera, streamRef, isFaceTrackingActive, mounted,
                 committed, renderDirty, videoTime, segLoops, meshLoops,
                 segmentationMaskRef, faceMeshRef, rafQueue, overlay, detectedAt>>

\* The face-smoothing slider.
PanelPartials ==
  { {<<"faceSmoothing", Num(Q(50))>>}, {<<"faceSmoothing", Num(Q(0))>>},
    {<<"portraitLighting", Num(Q(50))>>} }

\* The hue slider.
FilterPartials == { {<<"hue", Num(Q(90))>>} }

\* updateCurrentSettings called by the controls while VideoPanel is mounted
PanelUpdate(newSettings) ==
  /\ mounted
  /\ nEvents < MaxPanelEvents
  /\ nEvents' = nEvents + 1
  /\ settingsByCamera' = UpdateStore(settingsByCamera, currentCameraId, newSettings)
  /\ renderDirty' = TRUE
  /\ last' = Quiet
  /\ UNCHANGED <<fixedVars, streamRef, isFaceTrackingActive, blurMode, mounted,
                 committed, videoTime, segLoops, meshLoops, segmentationMaskRef,
                 faceMeshRef, rafQueue, overlay, detectedAt>>

\* useWebcam.stopStream
stopStream ==
  /\ mounted
  /\ streamRef # NULL
  /\ nEvents < MaxPanelEvents
  /\ nEvents' = nEvents + 1
  /\ streamRef' = NULL
  /\ detectedAt' = -1
  /\ last' = Quiet
  /\ UNCHANGED <<fixedVars, settingsByCamera, isFaceTrackingActive, blurMode, mounted,
                 committed, renderDirty, videoTime, segLoops, meshLoops,
                 segmentationMaskRef, faceMeshRef, rafQueue, overlay>>

\* useWebcam.startCamera for the same device, once getUserMedia has resolved
RestartCamera ==
  /\ mounted
  /\ streamRef = NULL
  /\ nEvents < MaxPanelEvents
  /\ nEvents' = nEvents + 1
  /\ streamRef' = currentCameraId
  /\ last' = Quiet
  /\ UNCHANGED <<fixedVars, settingsByCamera, isFaceTrackingActive, blurMode, mounted,
                 committed, renderDirty, videoTime, segLoops, meshLoops,
                 segmentationMaskRef, faceMeshRef, rafQueue, overlay, detectedAt>>

\* VideoPanel is taken off the page: the cleanups of its effects run.
Unmount ==
  /\ mounted
  /\ nEvents < MaxPanelEvents
  /\ nEvents' = nEvents + 1
  /\ mounted' = FALSE
  /\ segLoops' = CleanupLoops(segLoops)
  /\ meshLoops' = CleanupLoops(meshLoops)
  /\ rafQueue' = CancelFrame(rafQueue)
  /\ detectedAt' = -1
  /\ last' = Quiet
  /\ UNCHANGED <<fixedVars, settingsByCamera, streamRef, isFaceTrackingActive, blurMode,
                 committed, renderDirty, videoTime, segmentationMaskRef, faceMeshRef,
                 overlay>>

\* the video plays on
VideoPlays(dt) ==
  /\ videoTime + dt <= MaxVideoTime
  /\ videoTime' = videoTime + dt
  /\ last' = Quiet
  /\ UNCHANGED <<fixedVars, settingsByCamera, streamRef, nEvents, isFaceTrackingActive,
                 blurMode, mounted, committed, renderDirty, segLoops, meshLoops,
                 segmentationMaskRef, faceMeshRef, rafQueue, overlay, detectedAt>>

\* The segmentation effect re-runs: cleanup of the previous run, then the body.
SegEffect(loops, stream, mode, ready, playing) ==
  LET cleaned == CleanupLoops(loops)
  IN  IF stream = NULL \/ (mode = "none" /\ aiBackgroundUrl = NULL) THEN cleaned
      ELSE IF ~ready THEN cleaned
      ELSE Append(cleaned, StartLoop(playing))

\* The face-mesh effect re-runs: cleanup of the previous run, then the body.
MeshEffect(loops, stream, faceSmoothing, ready, playing) ==
  LET cleaned == CleanupLoops(loops)
  IN  IF stream = NULL \/ faceSmoothing = Q(0) THEN cleaned
      ELSE IF ~ready THEN cleaned
      ELSE Append(cleaned, StartLoop(playing))

(***************************************************************************)
(* The render effect runs (renderChanged): cleanup, then a new closure c    *)
(* whose first renderFrame() call gave r.  Without a stream the body        *)
(* returns after the cleanup.                                               *)
(***************************************************************************)
RenderEffect(renderChanged, c, r, in, mask, landmarks) ==
  LET frame == renderChanged /\ streamRef # NULL
      write == frame /\ r.update # {}
  IN /\ write => nEvents < MaxPanelEvents
     /\ nEvents' = IF write THEN nEvents + 1 ELSE nEvents
     /\ rafQueue' =
          IF ~renderChanged THEN rafQueue
          ELSE IF frame /\ r.scheduled
          THEN Request(CancelFrame(rafQueue),
                       [c EXCEPT !.lastFaceDetectionTime = r.lastFaceDetectionTime])
          ELSE CancelFrame(rafQueue)
     /\ settingsByCamera' =
          IF write THEN UpdateStore(settingsByCamera, currentCameraId, r.update)
                   ELSE settingsByCamera
     /\ renderDirty' = write
     /\ overlay' = IF frame THEN r.overlay ELSE overlay
     /\ detectedAt' = IF frame /\ r.detected THEN videoTime ELSE detectedAt
     /\ last' = IF frame
                THEN FrameDone(c, r, videoTime, detectedAt, overlay, in, mask, landmarks)
                ELSE Quiet

\* The effects of VideoPanel whose dependencies differ between the committed
\* props and the current ones (cur) run; c is the render effect's new closure.
RunEffects(in, segReady, meshReady, cur, c) ==
  LET streamChanged == cur.stream # committed.stream
      segChanged == streamChanged \/ cur.blurMode # committed.blurMode
      meshChanged == streamChanged \/ cur.faceSmoothing # committed.faceSmoothing
      renderChanged == \/ renderDirty
                       \/ streamChanged
                       \/ cur.blurMode # committed.blurMode
                       \/ cur.isFaceTrackingActive # committed.isFaceTrackingActive
      maskNow == IF segChanged /\ (streamRef = NULL
                                   \/ (blurMode = "none" /\ aiBackgroundUrl = NULL))
                 THEN NULL ELSE segmentationMaskRef
      meshNow == IF meshChanged /\ (streamRef = NULL \/ cur.faceSmoothing = Q(0))
                 THEN NULL ELSE faceMeshRef
  IN /\ committed' = cur
     /\ segLoops' = IF segChanged
                    THEN SegEffect(segLoops, streamRef, blurMode, segReady, in.playing)
                    ELSE segLoops
     /\ segmentationMaskRef' = maskNow
     /\ meshLoops' = IF meshChanged
                     THEN MeshEffect(meshLoops, streamRef, cur.faceSmoothing,
                                     meshReady, in.playing)
                     ELSE meshLoops
     /\ faceMeshRef' = meshNow
     /\ RenderEffect(renderChanged, c,
                     renderFrame(c, videoTime, overlay, in.video, in.tempCtx,
                                 in.fault, in.ready, in.results, maskNow, meshNow),
                     in, maskNow, meshNow)

(***************************************************************************)
(* React commits a render of VideoPanel: every effect with a changed       *)
(* dependency runs its cleanup and then its body.  The render effect       *)
(* depends on the settings object (replaced by every store write), the     *)
(* stream, the tracking flag and the blur mode; its body starts a closure  *)
(* with lastFaceDetectionTime = 0 and calls renderFrame() at once.         *)
(***************************************************************************)
PanelCommit(in, segReady, meshReady) ==
  /\ mounted
  /\ renderDirty
       \/ committed # Props(streamRef, blurMode, isFaceTrackingActive,
                            SettingsOf(settingsByCamera, currentCameraId))
  /\ RunEffects(in, segReady, meshReady,
                Props(streamRef, blurMode, isFaceTrackingActive,
                      SettingsOf(settingsByCamera, currentCameraId)),
                Closure(streamRef, SettingsOf(settingsByCamera, currentCameraId),
                        isFaceTrackingActive, blurMode, capabilities))
  /\ UNCHANGED <<fixedVars, streamRef, isFaceTrackingActive, blurMode, mounted,
                 videoTime>>

\* What a call r of renderFrame by the pending closure c leaves behind.
FrameRan(c, r, in) ==
  LET write == r.update # {}
  IN /\ write => nEvents < MaxPanelEvents
     /\ nEvents' = IF write THEN nEvents + 1 ELSE nEvents
     /\ rafQueue' =
          IF r.scheduled
          THEN Request(rafQueue \ {c},
                       [c EXCEPT !.lastFaceDetectionTime = r.lastFaceDetectionTime])
          ELSE rafQueue \ {c}
     /\ settingsByCamera' =
          IF write THEN UpdateStore(settingsByCamera, currentCameraId, r.update)
                   ELSE settingsByCamera
     /\ renderDirty' = (renderDirty \/ write)
     /\ overlay' = r.overlay
     /\ detectedAt' = IF r.detected /\ isFaceTrackingActive THEN videoTime
                                                            ELSE detectedAt
     /\ last' = FrameDone(c, r, videoTime, detectedAt, overlay, in,
                          segmentationMaskRef, faceMeshRef)

\* The browser runs a pending renderFrame callback.
RafFire(c, in) ==
  /\ c \in rafQueue
  /\ FrameRan(c,
              renderFrame(c, videoTime, overlay, in.video, in.tempCtx, in.fault,
                          in.ready, in.results, segmentationMaskRef, faceMeshRef),
              in)
  /\ UNCHANGED <<fixedVars, streamRef, isFaceTrackingActive, blurMode, mounted,
                 committed, videoTime, segLoops, meshLoops, segmentationMaskRef,
                 faceMeshRef>>

\* `last` after a step of a timer loop
LoopTick(kind, l) == [op |-> "tick", loop |-> kind, current |-> l.current]
LoopDone(kind, l, had, wrote) ==
  [op |-> "resolve", loop |-> kind, current |-> l.current, had |-> had,
   wrote |-> wrote, scheduled |-> l.isActive]

\* The timer of a loop closure fires: the top of segmentationLoop/faceMeshLoop
\* up to the await.
TimerFires(loops, i, playing) ==
  IF ~loops[i].isActive THEN RemoveAt(loops, i)
  ELSE IF ~playing THEN loops
  ELSE [loops EXCEPT ![i].pc = "awaiting"]

\* The awaited call has settled: the rest of the loop body.
CallSettles(loops, i) ==
  IF loops[i].isActive THEN [loops EXCEPT ![i].pc = "timer"] ELSE RemoveAt(loops, i)

SegTimer(i, playing) ==
  /\ i \in 1..Len(segLoops)
  /\ segLoops[i].pc = "timer"
  /\ segLoops' = TimerFires(segLoops, i, playing)
  /\ last' = LoopTick("segmentation", segLoops[i])
  /\ UNCHANGED <<fixedVars, settingsByCamera, streamRef, nEvents, isFaceTrackingActive,
                 blurMode, mounted, committed, renderDirty, videoTime, meshLoops,
                 segmentationMaskRef, faceMeshRef, rafQueue, overlay, detectedAt>>

\* await segment(...) settles with a mask or with null
SegResolve(i, mask) ==
  /\ i \in 1..Len(segLoops)
  /\ segLoops[i].pc = "awaiting"
  /\ LET wrote == mask # NULL /\ segLoops[i].isActive
     IN /\ segmentationMaskRef' = IF wrote THEN mask ELSE segmentationMaskRef
        /\ last' = LoopDone("segmentation", segLoops[i], mask # NULL, wrote)
  /\ segLoops' = CallSettles(segLoops, i)
  /\ UNCHANGED <<fixedVars, settingsByCamera, streamRef, nEvents, isFaceTrackingActive,
                 blurMode, mounted, committed, renderDirty, videoTime, meshLoops,
                 faceMeshRef, rafQueue, overlay, detectedAt>>

MeshTimer(i, playing) ==
  /\ i \in 1..Len(meshLoops)
  /\ meshLoops[i].pc = "timer"
  /\ meshLoops' = TimerFires(meshLoops, i, playing)
  /\ last' = LoopTick("faceMesh", meshLoops[i])
  /\ UNCHANGED <<fixedVars, settingsByCamera, streamRef, nEvents, isFaceTrackingActive,
                 blurMode, mounted, committed, renderDirty, videoTime, segLoops,
                 segmentationMaskRef, faceMeshRef, rafQueue, overlay, detectedAt>>

\* await detectFaceLandmarks(...) settles with the landmarks of a face, or
\* with no face (landmarks = NULL): an active loop writes the cell either way
MeshResolve(i, landmarks) ==
  /\ i \in 1..Len(meshLoops)
  /\ meshLoops[i].pc = "awaiting"
  /\ LET wrote == meshLoops[i].isActive
     IN /\ faceMeshRef' = IF wrote THEN landmarks ELSE faceMeshRef
        /\ last' = LoopDone("faceMesh", meshLoops[i], landmarks # NULL, wrote)
  /\ meshLoops' = CallSettles(meshLoops, i)
  /\ UNCHANGED <<fixedVars, settingsByCamera, streamRef, nEvents, isFaceTrackingActive,
                 blurMode, mounted, committed, renderDirty, videoTime, segLoops,
                 segmentationMaskRef, rafQueue, overlay, detectedAt>>

\* The render loop with face tracking.  Blur mode stays "none" and smoothing
\* stays 0 here, so neither service loop is ever started and the readiness of
\* the services is immaterial.
RenderNext ==
  \/ ToggleFaceTracking
  \/ \E partial \in FilterPartials : PanelUpdate(partial)
  \/ \E dt \in VideoSteps : VideoPlays(dt)
  \/ \E in \in FrameInputs : PanelCommit(in, TRUE, TRUE)
  \/ \E c \in rafQueue, in \in FrameInputs : RafFire(c, in)

\* The three loops and the conditions that start and stop them.
LoopsNext ==
  \/ \E mode \in BlurModes : SetBlurMode(mode)
  \/ \E partial \in PanelPartials : PanelUpdate(partial)
  \/ stopStream
  \/ RestartCamera
  \/ Unmount
  \/ \E in \in FrameInputs, segReady \in BOOLEAN, meshReady \in BOOLEAN :
       PanelCommit(in, segReady, meshReady)
  \/ \E c \in rafQueue, in \in FrameInputs : RafFire(c, in)
  \/ \E i \in 1..Len(segLoops), playing \in BOOLEAN : SegTimer(i, playing)
  \/ \E i \in 1..Len(segLoops), mask \in {NULL, "mask"} : SegResolve(i, mask)
  \/ \E i \in 1..Len(meshLoops), playing \in BOOLEAN : MeshTimer(i, playing)
  \/ \E i \in 1..Len(meshLoops), landmarks \in {NULL, "landmarks"} :
       MeshResolve(i, landmarks)

(***************************************************************************)
(* The tracking controller on a fixed bounding box: every tick hands the   *)
(* same box to the controller, whose output is merged into the store and   *)
(* read back on the next tick.                                             *)
(***************************************************************************)
FixedBoxes ==
  {Box(70, 40, 20, 20), Box(40, 30, 20, 40), Box(0, 0, 50, 60), Box(10, 50, 30, 30),
   Box(55, 5, 40, 90)}

TrackStarts ==
  {PanTiltZoom(Q(0), Q(0), Q(100)), PanTiltZoom(Q(180), Q(-90), Q(400)),
   PanTiltZoom(Q(-170), Q(80), Q(250))}

\* pan, tilt and zoom of a settings object
PanTiltZoomOf(settings) ==
  PanTiltZoom(QOf(settings.pan), QOf(settings.tilt), QOf(settings.zoom))

\* A camera is running with tracking on; the store holds a start position and
\* the detector is about to report the same box on every tick.
TrackInit ==
  /\ PanelUnmounted
  /\ variant = "app"
  /\ applyingRef = FALSE
  /\ applyDirty = FALSE
  /\ passes = <<>>
  /\ applied = {}
  /\ nEvents = 0
  /\ last = Quiet
  /\ zoomTrip = NoTrip
  /\ AuxIdle
  /\ \E d \in Devices, b \in FixedBoxes, v \in TrackStarts :
       LET settings == Merge(DEFAULT_SETTINGS,
                             {<<"pan", Num(v.pan)>>, <<"tilt", Num(v.tilt)>>,
                              <<"zoom", Num(v.zoom)>>})
       IN /\ currentCameraId = d
          /\ capabilities = d
          /\ streamRef = d
          /\ settingsByCamera = [x \in {d} |-> settings]
          /\ trk = [n |-> 0, boundingBox |-> b,
                    first |-> TrackTargets(b, Video.width, Video.height, v.pan, v.tilt,
                                           v.zoom, isHardwareControl(d, "zoom"),
                                           CapsOf(d)),
                    prev |-> v]

\* One detection tick with the fixed box: the controller reads the stored
\* settings and its output is merged into the store.
TrackTick ==
  /\ trk.n < MaxTicks
  /\ currentCameraId # NULL
  /\ LET settings == SettingsOf(settingsByCamera, currentCameraId)
         adj == TrackAdjust(trk.boundingBox, Video.width, Video.height, settings,
                            isHardwareControl(capabilities, "zoom"),
                            CapsOf(capabilities))
     IN /\ settingsByCamera' = UpdateStore(settingsByCamera, currentCameraId, adj)
        /\ trk' = [trk EXCEPT !.n = @ + 1, !.prev = PanTiltZoomOf(settings)]
  /\ last' = Quiet
  /\ UNCHANGED <<variant, currentCameraId, capabilities, streamRef, applyingRef,
                 applyDirty, passes, applied, nEvents, panelVars, zoomTrip, auxVars>>

TrackNext == TrackTick

(***************************************************************************)
(* The zoom unit conversion in JavaScript numbers.  A number is an IEEE    *)
(* 754 double; the values met here are positive and normal, so a double is *)
(* a record [m, e] of value m * 2^(e - 52), where the 53-bit significand m *)
(* is kept as three limbs <<hi, mid, lo>> of 13, 20 and 20 bits with       *)
(* hi >= 2^12.  Every operation rounds to nearest, ties to even.           *)
(***************************************************************************)
RECURSIVE Pow2(_)
Pow2(k) == IF k = 0 THEN 1 ELSE 2 * Pow2(k - 1)

Limb == Pow2(20)

TopLimb == Pow2(13)

\* Round a significand to nearest, ties to even.  cmp compares what was cut
\* off with half a unit in the last place: -1 below, 0 equal, 1 above.
RoundNearestEven(m, e, cmp) ==
  IF cmp = 1 \/ (cmp = 0 /\ m[3] % 2 = 1)
  THEN IF m[3] + 1 < Limb THEN [m |-> <<m[1], m[2], m[3] + 1>>, e |-> e]
       ELSE IF m[2] + 1 < Limb THEN [m |-> <<m[1], m[2] + 1, 0>>, e |-> e]
       ELSE IF m[1] + 1 < TopLimb THEN [m |-> <<m[1] + 1, 0, 0>>, e |-> e]
       ELSE [m |-> <<TopLimb \div 2, 0, 0>>, e |-> e + 1]
  ELSE [m |-> m, e |-> e]

\* floor(log2(n / d)) for n >= d > 0
RECURSIVE Exponent(_, _)
Exponent(n, d) == IF n < 2 * d THEN 0 ELSE 1 + Exponent(n, 2 * d)

\* The double nearest to n / d, for integers n >= d > 0: the number literal
\* or integer n when d = 1, the JavaScript quotient n / d otherwise.  Long
\* division, one limb at a time.
Double(n, d) ==
  LET exponent == Exponent(n, d)
      scaled == d * Pow2(exponent)
      r1 == (n - scaled) * (TopLimb \div 2)
      r2 == (r1 % scaled) * Limb
      r3 == (r2 % scaled) * Limb
      rest == r3 % scaled
      half == IF 2 * rest > scaled THEN 1 ELSE IF 2 * rest = scaled THEN 0 ELSE -1
  IN  RoundNearestEven(<<(TopLimb \div 2) + (r1 \div scaled), r2 \div scaled,
                         r3 \div scaled>>,
                       exponent, half)

\* number of bits of n >= 1
RECURSIVE BitLength(_)
BitLength(n) == IF n < 2 THEN 1 ELSE 1 + BitLength(n \div 2)

\* x * k in double arithmetic, for an integer k with 1 <= k < 128
DoubleTimes(x, k) ==
  LET p3 == x.m[3] * k
      p2 == x.m[2] * k + (p3 \div Limb)
      p1 == x.m[1] * k + (p2 \div Limb)
      cut == BitLength(p1) - 13
      unit == Pow2(cut)
      d3 == p3 % Limb
      d2 == p2 % Limb
      tail == d3 % unit
      half == IF cut = 0 \/ 2 * tail < unit THEN -1
              ELSE IF 2 * tail = unit THEN 0 ELSE 1
  IN  RoundNearestEven(<<p1 \div unit,
                         (d2 \div unit) + (p1 % unit) * (Limb \div unit),
                         (d3 \div unit) + (d2 % unit) * (Limb \div unit)>>,
                       x.e + cut, half)

DoubleLess(x, y) ==
  \/ x.e < y.e
  \/ /\ x.e = y.e
     /\ \/ x.m[1] < y.m[1]
        \/ x.m[1] = y.m[1] /\ x.m[2] < y.m[2]
        \/ x.m[1] = y.m[1] /\ x.m[2] = y.m[2] /\ x.m[3] < y.m[3]

\* Math.max(lo, Math.min(hi, x))
DoubleClamp(x, lo, hi) ==
  LET least == IF DoubleLess(hi, x) THEN hi ELSE x
  IN  IF DoubleLess(least, lo) THEN lo ELSE least

\* The zoom branch of the apply pass: valueToClamp = valueToApply / 100.0,
\* clampToRange(valueToClamp, range), finalUIValue = clampedValue * 100.
\* A range bound is a rational [num, den].
DualConversion(z, range) ==
  DoubleTimes(DoubleClamp(Double(z, 100),
                          Double(range.min.num, range.min.den),
                          Double(range.max.num, range.max.den)),
              100)

\* Clamping z itself to [hmin * 100, hmax * 100].
DirectClamp(z, range) ==
  DoubleClamp(Double(z, 1),
              DoubleTimes(Double(range.min.num, range.min.den), 100),
              DoubleTimes(Double(range.max.num, range.max.den), 100))

\* The UI zoom values: the integers of the slider's range and of every
\* imported settings file inside it.
ZoomValues == 100..400

\* Hardware zoom ranges.
ZoomRanges ==
  {Range(Q(1), Q(4)), Range(Q(2), Q(5)), Range(Rat(3, 2), Q(3))}

\* A UI zoom value meets a hardware zoom range.
ZoomInit ==
  /\ PanelUnmounted
  /\ trk = TrkIdle
  /\ variant = "hook"
  /\ settingsByCamera = [d \in {} |-> DEFAULT_SETTINGS]
  /\ currentCameraId = NULL
  /\ capabilities = NULL
  /\ streamRef = NULL
  /\ applyingRef = FALSE
  /\ applyDirty = FALSE
  /\ passes = <<>>
  /\ applied = {}
  /\ nEvents = 0
  /\ last = Quiet
  /\ AuxIdle
  /\ \E z \in ZoomValues, range \in ZoomRanges :
       zoomTrip = [done |-> FALSE, z |-> z, range |-> range]

\* The pass converts and clamps the zoom value.
ZoomRoundTrip ==
  /\ ~zoomTrip.done
  /\ zoomTrip.z > 0
  /\ zoomTrip' = [done |-> TRUE, z |-> zoomTrip.z, range |-> zoomTrip.range,
                  dual |-> DualConversion(zoomTrip.z, zoomTrip.range),
                  direct |-> DirectClamp(zoomTrip.z, zoomTrip.range)]
  /\ UNCHANGED <<settingsVars, last, panelVars, trk, auxVars>>

ZoomNext == ZoomRoundTrip

SpecZoom == ZoomInit /\ [][ZoomNext]_vars

(***************************************************************************)
(* canvasUtils.getDrawDimensions.  Its arguments are JavaScript numbers,   *)
(* so a division by zero does not raise: it gives Infinity or NaN.  A      *)
(* number here is finite (an exact rational q), Infinity, -Infinity or     *)
(* NaN.                                                                    *)
(***************************************************************************)
Finite(q) == [k |-> "finite", q |-> q]
Infinity == [k |-> "Infinity", q |-> Q(0)]
NegInfinity == [k |-> "-Infinity", q |-> Q(0)]
NaN == [k |-> "NaN", q |-> Q(0)]

\* Infinity with the sign of the finite number x # 0, or with the other sign
SignedInfinity(x, same) ==
  IF (x.q.num > 0) = same THEN Infinity ELSE NegInfinity

\* a / b
JsDiv(a, b) ==
  IF a.k = "NaN" \/ b.k = "NaN" THEN NaN
  ELSE IF a.k = "finite" /\ b.k = "finite"
  THEN IF b.q.num # 0 THEN Finite(QDiv(a.q, b.q))
       ELSE IF a.q.num = 0 THEN NaN ELSE SignedInfinity(a, TRUE)
  ELSE IF a.k = "finite" THEN Finite(Q(0))
  ELSE IF b.k = "finite"
  THEN IF (b.q.num >= 0) = (a.k = "Infinity") THEN Infinity ELSE NegInfinity
  ELSE NaN

\* a * b
JsMul(a, b) ==
  IF a.k = "NaN" \/ b.k = "NaN" THEN NaN
  ELSE IF a.k = "finite" /\ b.k = "finite" THEN Finite(QMul(a.q, b.q))
  ELSE IF a.k = "finite"
  THEN IF a.q.num = 0 THEN NaN ELSE SignedInfinity(a, b.k = "Infinity")
  ELSE IF b.k = "finite"
  THEN IF b.q.num = 0 THEN NaN ELSE SignedInfinity(b, a.k = "Infinity")
  ELSE IF a.k = b.k THEN Infinity ELSE NegInfinity

\* a - b
JsSub(a, b) ==
  IF a.k = "NaN" \/ b.k = "NaN" THEN NaN
  ELSE IF a.k = "finite" /\ b.k = "finite" THEN Finite(QSub(a.q, b.q))
  ELSE IF a.k = "finite" THEN (IF b.k = "Infinity" THEN NegInfinity ELSE Infinity)
  ELSE IF b.k = "finite" THEN a
  ELSE IF a.k = b.k THEN NaN ELSE a

\* a > b
JsGreater(a, b) ==
  IF a.k = "NaN" \/ b.k = "NaN" THEN FALSE
  ELSE IF a.k = "finite" /\ b.k = "finite" THEN QLess(b.q, a.q)
  ELSE IF a.k = b.k THEN FALSE
  ELSE a.k = "Infinity" \/ b.k = "-Infinity"

\* (mutation of getDrawDimensions: the two branches are exchanged, so the
\* video covers the canvas instead of fitting into it)
getDrawDimensionsCover(videoWidth, videoHeight, canvasWidth, canvasHeight) ==
  LET videoAspectRatio == JsDiv(Finite(Q(videoWidth)), Finite(Q(videoHeight)))
      canvasAspectRatio == JsDiv(Finite(Q(canvasWidth)), Finite(Q(canvasHeight)))
      two == Finite(Q(2))
  IN  IF ~JsGreater(canvasAspectRatio, videoAspectRatio)
      THEN LET drawWidth == JsMul(Finite(Q(canvasHeight)), videoAspectRatio)
           IN  [threw |-> FALSE, drawWidth |-> drawWidth,
                drawHeight |-> Finite(Q(canvasHeight)),
                offsetX |-> JsDiv(JsSub(Finite(Q(canvasWidth)), drawWidth), two),
                offsetY |-> Finite(Q(0))]
      ELSE LET drawHeight == JsDiv(Finite(Q(canvasWidth)), videoAspectRatio)
           IN  [threw |-> FALSE, drawWidth |-> Finite(Q(canvasWidth)),
                drawHeight |-> drawHeight,
                offsetX |-> Finite(Q(0)),
                offsetY |-> JsDiv(JsSub(Finite(Q(canvasHeight)), drawHeight), two)]

\* getDrawDimensions: the function has no throw statement and no operation
\* that raises, so threw is FALSE on every path.
getDrawDimensions(videoWidth, videoHeight, canvasWidth, canvasHeight) ==
  LET videoAspectRatio == JsDiv(Finite(Q(videoWidth)), Finite(Q(videoHeight)))
      canvasAspectRatio == JsDiv(Finite(Q(canvasWidth)), Finite(Q(canvasHeight)))
      two == Finite(Q(2))
  IN  IF JsGreater(canvasAspectRatio, videoAspectRatio)
      THEN LET drawWidth == JsMul(Finite(Q(canvasHeight)), videoAspectRatio)
           IN  [threw |-> FALSE, drawWidth |-> drawWidth,
                drawHeight |-> Finite(Q(canvasHeight)),
                offsetX |-> JsDiv(JsSub(Finite(Q(canvasWidth)), drawWidth), two),
                offsetY |-> Finite(Q(0))]
      ELSE LET drawHeight == JsDiv(Finite(Q(canvasWidth)), videoAspectRatio)
           IN  [threw |-> FALSE, drawWidth |-> Finite(Q(canvasWidth)),
                drawHeight |-> drawHeight,
                offsetX |-> Finite(Q(0)),
                offsetY |-> JsDiv(JsSub(Finite(Q(canvasHeight)), drawHeight), two)]

\* Widths and heights of videos and canvases, in pixels.
Dimensions == {0, 3, 4, 720, 900, 1280, 1920}

\* getDrawDimensions is about to be called.
DrawInit ==
  /\ PanelUnmounted
  /\ AIIdle
  /\ SWIdle
  /\ MediaIdle
  /\ trk = TrkIdle
  /\ zoomTrip = NoTrip
  /\ variant = "app"
  /\ settingsByCamera = [d \in {} |-> DEFAULT_SETTINGS]
  /\ currentCameraId = NULL
  /\ capabilities = NULL
  /\ streamRef = NULL
  /\ applyingRef = FALSE
  /\ applyDirty = FALSE
  /\ passes = <<>>
  /\ applied = {}
  /\ nEvents = 0
  /\ last = Quiet
  /\ \E vw \in Dimensions, vh \in Dimensions, cw \in Dimensions, ch \in Dimensions :
       fnCall = [fn |-> "getDrawDimensions", done |-> FALSE,
                 videoWidth |-> vw, videoHeight |-> vh,
                 canvasWidth |-> cw, canvasHeight |-> ch]

\* The call returns.
DrawDimensionsReturn ==
  /\ fnCall.fn = "getDrawDimensions"
  /\ ~fnCall.done
  /\ fnCall' = [fn |-> "getDrawDimensions", done |-> TRUE,
                videoWidth |-> fnCall.videoWidth, videoHeight |-> fnCall.videoHeight,
                canvasWidth |-> fnCall.canvasWidth, canvasHeight |-> fnCall.canvasHeight,
                result |-> getDrawDimensions(fnCall.videoWidth, fnCall.videoHeight,
                                             fnCall.canvasWidth, fnCall.canvasHeight)]
  /\ UNCHANGED <<settingsVars, last, panelVars, trk, zoomTrip, aiVars, sw, media>>

DrawNext == DrawDimensionsReturn

SpecDraw == DrawInit /\ [][DrawNext]_vars

(***************************************************************************)
(* filterUtils.buildFilter.  The filter string is kept as the list of its  *)
(* components (what filters.join(' ') puts together), or as the literal    *)
(* "none".                                                                 *)
(***************************************************************************)

\* The preset names, the keys of FILTER_DEFINITIONS.
FilterTypes ==
  {"none", "grayscale", "sepia", "invert", "posterize", "aqua", "blackboard",
   "whiteboard"}

\* FILTER_DEFINITIONS[filterType].  The table is an object literal, so a key
\* it does not define gives undefined, except for the names every object
\* inherits (here "constructor"), which give a function.
FILTER_DEFINITIONS(filterType) ==
  CASE filterType = "none" -> [t |-> "string", s |-> ""]
    [] filterType = "grayscale" -> [t |-> "string", s |-> "grayscale(100%)"]
    [] filterType = "sepia" -> [t |-> "string", s |-> "sepia(100%)"]
    [] filterType = "invert" -> [t |-> "string", s |-> "invert(100%)"]
    [] filterType = "posterize" ->
         [t |-> "string", s |-> "contrast(250%) saturate(200%)"]
    [] filterType = "aqua" ->
         [t |-> "string", s |-> "sepia(50%) hue-rotate(180deg) saturate(200%)"]
    [] filterType = "blackboard" ->
         [t |-> "string",
          s |-> "contrast(150%) brightness(120%) grayscale(100%) invert(100%)"]
    [] filterType = "whiteboard" ->
         [t |-> "string", s |-> "contrast(200%) brightness(110%) grayscale(100%)"]
    [] filterType = "constructor" ->
         [t |-> "function", s |-> "function Object() { [native code] }"]
    [] OTHER -> [t |-> "undefined", s |-> ""]

\* if (filterDef): a non-empty string or a function
Truthy(filterDef) ==
  filterDef.t = "function" \/ (filterDef.t = "string" /\ filterDef.s # "")

\* The components of a filter string.
HueRotate(deg) == [kind |-> "hue-rotate", n |-> deg, s |-> ""]
Preset(def) == [kind |-> "preset", n |-> 0, s |-> def]
Blur(px) == [kind |-> "blur", n |-> px, s |-> ""]

\* filters.join(' ').trim() || 'none'
Joined(filters) ==
  IF filters = <<>> THEN [text |-> "none", parts |-> <<>>]
  ELSE [text |-> "chain", parts |-> filters]

\* (mutation of buildFilter: the user's blur is pushed before full blur is
\* considered, and the preset comes first)
buildFilterUnordered(hue, filter, blur, mode) ==
  LET filterDef == FILTER_DEFINITIONS(filter)
  IN  Joined((IF Truthy(filterDef) THEN <<Preset(filterDef.s)>> ELSE <<>>)
             \o (IF hue # 0 THEN <<HueRotate(hue)>> ELSE <<>>)
             \o (IF blur > 0 THEN <<Blur(blur)>>
                 ELSE IF mode = "full" THEN <<Blur(12)>> ELSE <<>>))

\* buildFilter(settings, blurMode) with settings = {hue, filter, blur}
buildFilter(hue, filter, blur, mode) ==
  LET filterDef == FILTER_DEFINITIONS(filter)
  IN  Joined((IF hue # 0 THEN <<HueRotate(hue)>> ELSE <<>>)
             \o (IF Truthy(filterDef) THEN <<Preset(filterDef.s)>> ELSE <<>>)
             \o (IF mode = "full" THEN <<Blur(12)>>
                 ELSE IF blur > 0 THEN <<Blur(blur)>> ELSE <<>>))

\* Values of settings.hue, settings.filter (a string: the select offers the
\* presets, an imported settings file can carry any string), settings.blur
\* and of the blur mode.
HueValues == {-30, 0, 90}
FilterValues == FilterTypes \cup {"vivid", "constructor"}
BlurValues == {-1, 0, 5, 12}
FilterBlurModes == {"none", "portrait", "full"}

\* buildFilter is about to be called.
FilterInit ==
  /\ PanelUnmounted
  /\ AIIdle
  /\ SWIdle
  /\ MediaIdle
  /\ trk = TrkIdle
  /\ zoomTrip = NoTrip
  /\ variant = "app"
  /\ settingsByCamera = [d \in {} |-> DEFAULT_SETTINGS]
  /\ currentCameraId = NULL
  /\ capabilities = NULL
  /\ streamRef = NULL
  /\ applyingRef = FALSE
  /\ applyDirty = FALSE
  /\ passes = <<>>
  /\ applied = {}
  /\ nEvents = 0
  /\ last = Quiet
  /\ \E hue \in HueValues, filter \in FilterValues, blur \in BlurValues,
        mode \in FilterBlurModes :
       fnCall = [fn |-> "buildFilter", done |-> FALSE, hue |-> hue,
                 filter |-> filter, blur |-> blur, blurMode |-> mode]

\* The call returns.
BuildFilterReturn ==
  /\ fnCall.fn = "buildFilter"
  /\ ~fnCall.done
  /\ fnCall' = [fn |-> "buildFilter", done |-> TRUE, hue |-> fnCall.hue,
                filter |-> fnCall.filter, blur |-> fnCall.blur,
                blurMode |-> fnCall.blurMode,
                result |-> buildFilter(fnCall.hue, fnCall.filter, fnCall.blur,
                                       fnCall.blurMode)]
  /\ UNCHANGED <<settingsVars, last, panelVars, trk, zoomTrip, aiVars, sw, media>>

FilterNext == BuildFilterReturn

SpecFilter == FilterInit /\ [][FilterNext]_vars

Init == SettingsInit

Next == SettingsNext

Spec == Init /\ [][Next]_vars

SpecRender == RenderInit /\ [][RenderNext]_vars

SpecLoops == RenderInit /\ [][LoopsNext]_vars

SpecTrack == TrackInit /\ [][TrackNext]_vars

(***************************************************************************)
(* A session that has already used camA: the user changed brightness, pan, *)
(* zoom and exposure mode there (camA has a brightness range only, so the  *)
(* pass applied brightness 255 and corrected nothing), and everything has  *)
(* settled.  From here the user switches cameras and changes settings.     *)
(***************************************************************************)
StoreInit ==
  /\ PanelUnmounted
  /\ trk = TrkIdle
  /\ zoomTrip = NoTrip
  /\ AuxIdle
  /\ variant \in {"hook", "app"}
  /\ settingsByCamera =
       [d \in {"camA"} |->
          Merge(DEFAULT_SETTINGS,
                {<<"brightness", Num(Rat(51001, 200))>>, <<"pan", Num(Q(180))>>,
                 <<"zoom", Num(Q(150))>>, <<"exposureMode", Str("manual")>>})]
  /\ currentCameraId = "camA"
  /\ capabilities = "camA"
  /\ streamRef = "camA"
  /\ applyingRef = FALSE
  /\ applyDirty = FALSE
  /\ passes = <<>>
  /\ applied = {<<"brightness", Num(Q(255))>>}
  /\ nEvents = 0
  /\ last = Quiet

SpecStore == StoreInit /\ [][SettingsNext]_vars

(***************************************************************************)
(* Properties of the settings reconciliation (specification Spec).         *)
(***************************************************************************)

\* The numeric controls of a snapshot that map to a hardware range.
RangedControls(snap, caps) ==
  {c \in ControlSet :
     /\ getConstraintName(c) # NULL
     /\ getConstraintName(c) \in DOMAIN caps
     /\ caps[getConstraintName(c)].kind = "range"
     /\ snap[c].t = "num"}

\* The enum controls of a snapshot whose value the capability list lacks.
RejectedEnums(snap, caps) ==
  {c \in ControlSet :
     /\ getConstraintName(c) # NULL
     /\ getConstraintName(c) \in DOMAIN caps
     /\ caps[getConstraintName(c)].kind = "list"
     /\ snap[c].t = "str"
     /\ snap[c].s \notin caps[getConstraintName(c)].values}

\* The capability range of a control in UI units (zoom: hardware * 100).
UILo(c, caps) ==
  IF c = "zoom" THEN QMul(caps[getConstraintName(c)].min, Q(100))
                ELSE caps[getConstraintName(c)].min
UIHi(c, caps) ==
  IF c = "zoom" THEN QMul(caps[getConstraintName(c)].max, Q(100))
                ELSE caps[getConstraintName(c)].max

OutsideRange(c, v, caps) == QLess(v, UILo(c, caps)) \/ QLess(UIHi(c, caps), v)

UIClamp(c, v, caps) ==
  IF QLess(v, UILo(c, caps)) THEN UILo(c, caps)
  ELSE IF QLess(UIHi(c, caps), v) THEN UIHi(c, caps) ELSE v

\* C1: at most one settings apply-pass is in flight at any time.
C1_SinglePassInFlight == Len(passes) <= 1

\* C3 as stated: when a pass completes, every ranged numeric control whose
\* requested value was outside its range holds the clamped value in the
\* store, and the pass wrote its corrections in exactly one store update.
C3_ClampedAndBatched_Original ==
  last.op = "passDone" =>
    LET caps == CapsOf(last.caps)
        out == {c \in RangedControls(last.snap, caps) :
                  OutsideRange(c, QOf(last.snap[c]), caps)}
    IN  /\ \A c \in out :
             SettingsOf(settingsByCamera, last.dev)[c]
               = Num(UIClamp(c, QOf(last.snap[c]), caps))
        /\ out # {} => Len(last.batches) = 1

\* C3 amended: the same for every ranged numeric control whose requested
\* value lies outside its range by more than 0.01; the single store update
\* carries exactly those controls, and a pass with none writes nothing.
C3_ClampedAndBatched ==
  last.op = "passDone" =>
    LET caps == CapsOf(last.caps)
        out == {c \in RangedControls(last.snap, caps) :
                  QLess(DriftThreshold,
                        QAbs(QSub(UIClamp(c, QOf(last.snap[c]), caps),
                                  QOf(last.snap[c]))))}
    IN  /\ \A c \in out :
             SettingsOf(settingsByCamera, last.dev)[c]
               = Num(UIClamp(c, QOf(last.snap[c]), caps))
        /\ Len(last.batches) = (IF out = {} THEN 0 ELSE 1)
        /\ out # {} => Keys(last.batches[1]) = out

\* C3 witness: a pass completed that clamped at least two controls.
C3_Witness ==
  /\ last.op = "passDone"
  /\ Cardinality(last.changed) >= 2
  /\ \E c \in Keys(last.changed) :
       OutsideRange(c, QOf(last.snap[c]), CapsOf(last.caps))

\* C4: a pass whose snapshot holds an enum value the capability list lacks
\* makes no hardware call for that control, stages no correction for it,
\* leaves its stored value as it was, and still calls the hardware for every
\* later control that has a capability and is not itself rejected.
C4_EnumRejected ==
  [][ last'.op = "passDone" =>
        LET caps == CapsOf(last'.caps)
            called == {last'.calls[i].control : i \in 1..Len(last'.calls)}
        IN  \A c \in RejectedEnums(last'.snap, caps) :
              /\ c \notin called
              /\ c \notin Keys(last'.changed)
              /\ SettingsOf(settingsByCamera', last'.dev)[c]
                   = SettingsOf(settingsByCamera, last'.dev)[c]
              /\ \A k \in ControlSet :
                   ( /\ getConstraintName(k) # NULL
                     /\ getConstraintName(k) \in DOMAIN caps
                     /\ k \notin RejectedEnums(last'.snap, caps) ) => k \in called
    ]_vars

\* C4 witness: a pass completed whose snapshot had an unsupported exposure
\* mode and which went on to call the hardware for zoom.
C4_Witness ==
  /\ last.op = "passDone"
  /\ "exposureMode" \in RejectedEnums(last.snap, CapsOf(last.caps))
  /\ \E i \in 1..Len(last.calls) : last.calls[i].control = "zoom"

\* C8: the zoom stored for every device lies in the UI range [100, 400].
C8_ZoomInUIRange ==
  \A d \in DOMAIN settingsByCamera :
    /\ QLeq(Q(100), QOf(settingsByCamera[d].zoom))
    /\ QLeq(QOf(settingsByCamera[d].zoom), Q(400))

(***************************************************************************)
(* Properties of the render loop (specification SpecRender).               *)
(***************************************************************************)

\* C2: a frame in which any stage raised an exception (base layer, filters,
\* portrait lighting, geometric transform, face detection) has still
\* requested the next animation frame.
C2_FrameFailureCaught ==
  (last.op = "frame" /\ last.threw # "none") => last.scheduled

\* C5: while face tracking is active, a face-detection run comes more than
\* 100 ms of video time after the previous one.
C5_DetectionsSpaced ==
  (last.op = "frame" /\ last.detected /\ last.tracking /\ last.prevDetect >= 0)
    => last.timestamp - last.prevDetect > FACE_DETECTION_INTERVAL_MS

\* A detection tick ran to its end with this result of the detector.
TickCompleted == last.op = "frame" /\ last.detected /\ last.threw = "none"

\* C9: after a detection tick on which the detector returned zero faces, no
\* settings update was issued and the overlay is empty.
C9_NoFaceNoUpdate ==
  (TickCompleted /\ ~last.results.isNull /\ Len(last.results.detections) = 0)
    => (last.update = {} /\ overlay = EmptyOverlay)

\* C9 witness: the detector returned zero faces on a tick that found a box
\* on the overlay.
C9_Witness ==
  /\ TickCompleted
  /\ ~last.results.isNull
  /\ Len(last.results.detections) = 0
  /\ last.overlayBefore.drawn
  /\ ~overlay.drawn

\* The first detection, in the detector's order, of largest bounding-box width.
WidestFirst(ds) ==
  ds[CHOOSE i \in 1..Len(ds) :
       /\ \A j \in 1..Len(ds) : WidthOf(ds[j]) <= WidthOf(ds[i])
       /\ \A j \in 1..(i - 1) : WidthOf(ds[j]) < WidthOf(ds[i])]

\* C10: after a detection tick with one or more faces, the overlay shows the
\* box of the face of largest bounding-box width, the first such face in the
\* detector's order, and the settings update is the controller's output for
\* that box.
C10_LargestWidthFirst ==
  (TickCompleted /\ Len(last.results.detections) > 0
     /\ WidestFirst(last.results.detections).hasBox)
    => LET face == WidestFirst(last.results.detections)
       IN  /\ overlay = [drawn |-> TRUE, boundingBox |-> face.boundingBox]
           /\ last.update =
                TrackAdjust(face.boundingBox, Video.width, Video.height,
                            last.settings, last.isHardwareZoom,
                            CapsOf(last.capabilities))

\* C10 witness: a tick with three faces, two of them of the largest width and
\* a third of larger area, drew a box.
C10_Witness ==
  /\ TickCompleted
  /\ Len(last.results.detections) = 3
  /\ \E i, j \in 1..3 :
       /\ i # j
       /\ WidthOf(last.results.detections[i]) = WidthOf(last.results.detections[j])
       /\ WidestFirst(last.results.detections) = last.results.detections[i]
  /\ \E k \in 1..3 :
       AreaOf(last.results.detections[k]) > AreaOf(WidestFirst(last.results.detections))
  /\ overlay.drawn

\* C11: after a frame that ran while face tracking was inactive (in the
\* application state and in the closure that ran), the overlay is clear,
\* whatever the video element reported.
C11_IdleOverlayCleared ==
  (last.op = "frame" /\ ~last.tracking /\ ~last.active) => overlay = EmptyOverlay

\* C15: a frame at which the video was paused, ended, or had a zero width or
\* a zero height drew nothing, ran no detection, raised nothing and requested
\* the next frame.
C15_SkippedFrame ==
  (last.op = "frame" /\ last.video # "playing")
    => (~last.drew /\ ~last.detected /\ last.threw = "none" /\ last.scheduled)

(***************************************************************************)
(* Properties of the three loops (specification SpecLoops).                *)
(***************************************************************************)

SegmentationOff ==
  ~mounted \/ committed.stream = NULL
           \/ (committed.blurMode = "none" /\ aiBackgroundUrl = NULL)
FaceMeshOff == ~mounted \/ committed.stream = NULL \/ committed.faceSmoothing = Q(0)
RenderOff == ~mounted \/ committed.stream = NULL

\* C7: once the cleanup for an ended condition has run (stream stopped,
\* feature disabled, component unmounted), the loop it owned is stopped: it
\* has no timer or animation frame pending, no tick of it runs, and a call
\* that was in flight settles without writing the mask cell or the landmark
\* cell and without scheduling a tick; no frame of a cancelled render loop
\* runs, so it writes neither the overlay nor the settings store.
C7_LoopsStop ==
  /\ SegmentationOff => \A i \in 1..Len(segLoops) : ~segLoops[i].current
  /\ FaceMeshOff => \A i \in 1..Len(meshLoops) : ~meshLoops[i].current
  /\ RenderOff => rafQueue = {}
  /\ \A i \in 1..Len(segLoops) : segLoops[i].pc = "timer" => segLoops[i].current
  /\ \A i \in 1..Len(meshLoops) : meshLoops[i].pc = "timer" => meshLoops[i].current
  /\ \A c \in rafQueue : c.live
  /\ last.op = "tick" => last.current
  /\ (last.op = "resolve" /\ ~last.current) => (~last.wrote /\ ~last.scheduled)
  /\ last.op = "frame" => last.live

\* C7 witness: a segment call that was in flight when its loop was cancelled
\* has settled with a mask.
C7_Witness ==
  /\ last.op = "resolve"
  /\ last.loop = "segmentation"
  /\ ~last.current
  /\ last.had

(***************************************************************************)
(* Properties of the tracking controller (specification SpecTrack).        *)
(***************************************************************************)

\* One axis after a tick: the value moved toward the first tick's target
\* without passing it, and the remaining error is 1 - 0.08 of what it was.
AxisConverges(first, prev, cur) ==
  LET errorBefore == QSub(first, prev)
      errorAfter == QSub(first, cur)
  IN  /\ QLeq(QAbs(errorAfter), QAbs(errorBefore))
      /\ errorBefore.num >= 0 => errorAfter.num >= 0
      /\ errorBefore.num <= 0 => errorAfter.num <= 0
      /\ QAbs(errorAfter) = QMul(QAbs(errorBefore), QSub(Q(1), SMOOTHING_FACTOR))

\* C6: with the same box on every tick, each of pan, tilt and zoom in the
\* store moves monotonically toward the target of the first tick, never
\* passes it, and its remaining error shrinks by the factor 1 - 0.08 on
\* every tick.
C6_Converges ==
  trk.n >= 1 =>
    LET cur == PanTiltZoomOf(SettingsOf(settingsByCamera, currentCameraId))
    IN  /\ AxisConverges(trk.first.pan, trk.prev.pan, cur.pan)
        /\ AxisConverges(trk.first.tilt, trk.prev.tilt, cur.tilt)
        /\ AxisConverges(trk.first.zoom, trk.prev.zoom, cur.zoom)

(***************************************************************************)
(* Properties of the path from the store to the track (specification       *)
(* Spec).                                                                  *)
(***************************************************************************)

\* The value of a ranged control in hardware units, clamped to its range.
HardwareClamp(c, v, caps) ==
  LET x == IF c = "zoom" THEN QDiv(v, Q(100)) ELSE v
      range == caps[getConstraintName(c)]
  IN  QMax(range.min, QMin(range.max, x))

\* No pass is in flight and no change is waiting for the apply effect.
ChangesSettled ==
  /\ currentCameraId # NULL
  /\ streamRef # NULL
  /\ capabilities # NULL
  /\ passes = <<>>
  /\ ~applyDirty

\* C12: once every change has been taken up and no pass is left, the value
\* last applied to the live track for each ranged hardware control is the
\* clamped value of what the store holds for it.
C12_StoreReachesHardware ==
  ChangesSettled =>
    LET settings == SettingsOf(settingsByCamera, currentCameraId)
        caps == CapsOf(capabilities)
    IN  \A c \in RangedControls(settings, caps) :
          <<getConstraintName(c), Num(HardwareClamp(c, QOf(settings[c]), caps))>>
            \in applied

\* The controls of a snapshot whose loop iteration reaches the hardware call.
AppliedControls(snap, caps) ==
  RangedControls(snap, caps)
    \cup {c \in ControlSet :
            /\ getConstraintName(c) # NULL
            /\ getConstraintName(c) \in DOMAIN caps
            /\ caps[getConstraintName(c)].kind = "list"
            /\ snap[c].t = "str"
            /\ snap[c].s \in caps[getConstraintName(c)].values}

\* The ranged controls of a snapshot whose clamped value differs from the
\* requested one by more than the drift threshold.
DriftedControls(snap, caps) ==
  {c \in RangedControls(snap, caps) :
     QLess(DriftThreshold,
           QAbs(QSub(UIClamp(c, QOf(snap[c]), caps), QOf(snap[c]))))}

\* C13: a pass in which the track rejected a constraint still made the
\* hardware call of every control that has one, staged every correction and
\* wrote the corrections to the store in one batch.
C13_RejectionContained ==
  (last.op = "passDone" /\ \E i \in 1..Len(last.calls) : last.calls[i].rejected) =>
    LET caps == CapsOf(last.caps)
    IN  /\ {last.calls[i].control : i \in 1..Len(last.calls)}
             = AppliedControls(last.snap, caps)
        /\ Keys(last.changed) = DriftedControls(last.snap, caps)
        /\ last.batches = CorrectionBatches(last.changed)
        /\ \A kv \in last.changed : settingsByCamera[last.dev][kv[1]] = kv[2]

\* C13 witness: the track rejected the zoom constraint, the pass went on to
\* pan, and it wrote a correction.
C13_Witness ==
  /\ last.op = "passDone"
  /\ \E i \in 1..Len(last.calls) :
       /\ last.calls[i].control = "zoom"
       /\ last.calls[i].rejected
       /\ \E j \in (i + 1)..Len(last.calls) : last.calls[j].control = "pan"
  /\ last.changed # {}

\* C19: a ranged control whose requested value lies inside its range (zoom
\* in hardware units) gets no correction staged, and the hardware call of the
\* pass carries exactly the requested value (zoom: requested / 100).
C19_InRangeAppliedAsIs ==
  last.op = "passDone" =>
    LET caps == CapsOf(last.caps)
    IN  \A c \in RangedControls(last.snap, caps) :
          ~OutsideRange(c, QOf(last.snap[c]), caps) =>
            /\ c \notin Keys(last.changed)
            /\ \E i \in 1..Len(last.calls) :
                 /\ last.calls[i].control = c
                 /\ last.calls[i].value =
                      Num(IF c = "zoom" THEN QDiv(QOf(last.snap[c]), Q(100))
                                        ELSE QOf(last.snap[c]))

\* C19 witness: UI zoom 400 on the camera whose zoom range is [2, 5] was
\* applied as 4 with no zoom correction.
C19_Witness ==
  /\ last.op = "passDone"
  /\ last.snap.zoom = Num(Q(400))
  /\ "zoom" \in RangedControls(last.snap, CapsOf(last.caps))
  /\ "zoom" \notin Keys(last.changed)
  /\ \E i \in 1..Len(last.calls) :
       last.calls[i].control = "zoom" /\ last.calls[i].value = Num(Q(4))

(***************************************************************************)
(* Range of the tracking output (specification SpecTrack).                 *)
(***************************************************************************)

\* C17: the pan and tilt the tracking controller leaves in the store stay
\* inside [-180, 180] and [-90, 90].
C17_PanTiltInRange ==
  LET cur == PanTiltZoomOf(SettingsOf(settingsByCamera, currentCameraId))
  IN  /\ QLeq(PAN_MIN, cur.pan) /\ QLeq(cur.pan, PAN_MAX)
      /\ QLeq(TILT_MIN, cur.tilt) /\ QLeq(cur.tilt, TILT_MAX)

\* C17 witness: from pan 180 and tilt -90 a face left of and above the
\* centre asks for more pan and less tilt; the tick left both at the limit.
C17_Witness ==
  /\ trk.n >= 1
  /\ trk.boundingBox = Box(0, 0, 50, 60)
  /\ trk.prev.pan = PAN_MAX
  /\ trk.prev.tilt = TILT_MIN
  /\ PanTiltZoomOf(SettingsOf(settingsByCamera, currentCameraId)).pan = PAN_MAX
  /\ PanTiltZoomOf(SettingsOf(settingsByCamera, currentCameraId)).tilt = TILT_MIN

(***************************************************************************)
(* Frame of a store update (specification SpecStore).                      *)
(***************************************************************************)

\* C20: an update with partial p while device d is current gives d's entry
\* the values of p for the keys of p and leaves its other keys as they were
\* (as the defaults when d had no entry); the entries of all other devices
\* stay as they were; and no step removes an entry from the store.
C20_UpdateFrame ==
  [][ /\ DOMAIN settingsByCamera \subseteq DOMAIN settingsByCamera'
      /\ \A p \in UserPartials :
           UserUpdate(p) =>
             LET d == currentCameraId
                 before == SettingsOf(settingsByCamera, d)
             IN  /\ DOMAIN settingsByCamera' = DOMAIN settingsByCamera \cup {d}
                 /\ \A k \in ControlSet :
                      settingsByCamera'[d][k] =
                        IF k \in Keys(p) THEN ValueAt(p, k) ELSE before[k]
                 /\ \A e \in DOMAIN settingsByCamera \ {d} :
                      settingsByCamera'[e] = settingsByCamera[e]
    ]_vars

\* C20 witness: after a switch from camA to camB an update changed camB's
\* entry, and camA's entry still holds what the user left there.
C20_Witness ==
  /\ last.op = "update"
  /\ last.dev = "camB"
  /\ DOMAIN settingsByCamera = {"camA", "camB"}
  /\ settingsByCamera["camA"].pan = Num(Q(180))
  /\ settingsByCamera["camA"].zoom = Num(Q(150))
  /\ settingsByCamera["camB"].zoom = Num(Q(400))
  /\ settingsByCamera["camB"].pan = Num(Q(0))

(***************************************************************************)
(* The zoom unit round trip (specification SpecZoom).                      *)
(***************************************************************************)

\* C18: dividing a UI zoom value by 100, clamping it to the hardware range
\* and multiplying by 100 gives the same number as clamping the UI value to
\* the range times 100.
C18_DualEqualsDirect ==
  zoomTrip.done => zoomTrip.dual = zoomTrip.direct

(***************************************************************************)
(* Properties of getDrawDimensions (specification SpecDraw).  Arithmetic   *)
(* is exact here; in the doubles of the program the ratio below is equal   *)
(* up to rounding.                                                         *)
(***************************************************************************)

\* A returned call of getDrawDimensions.
DrawReturned == fnCall.fn = "getDrawDimensions" /\ fnCall.done

\* All four arguments of the call are positive.
DrawPositive ==
  /\ fnCall.videoWidth > 0 /\ fnCall.videoHeight > 0
  /\ fnCall.canvasWidth > 0 /\ fnCall.canvasHeight > 0

C22_ZeroHeightSignalled ==
  (DrawReturned /\ (fnCall.videoHeight = 0 \/ fnCall.canvasHeight = 0)) =>
    fnCall.result.threw

(***************************************************************************)
(* Properties of buildFilter (specification SpecFilter).                   *)
(***************************************************************************)

\* A returned call of buildFilter.
FilterReturned == fnCall.fn = "buildFilter" /\ fnCall.done

\* C23: buildFilter returns the literal "none" exactly when hue is 0, the
\* filter is 'none', blur is not positive and the blur mode is not 'full'.
C23_NoneIffNoEffect ==
  FilterReturned =>
    ( fnCall.result.text = "none"
        <=> ( /\ fnCall.hue = 0
              /\ fnCall.filter = "none"
              /\ fnCall.blur <= 0
              /\ fnCall.blurMode # "full" ) )

\* Position of a component kind in the fixed order.
KindRank(kind) ==
  CASE kind = "hue-rotate" -> 1 [] kind = "preset" -> 2 [] kind = "blur" -> 3

\* C24: the components come in the order hue-rotate, preset, blur with at
\* most one of each; in 'full' blur mode the blur component is blur(12px)
\* whatever settings.blur is; otherwise there is a blur component only when
\* settings.blur > 0, and it carries that value.
C24_OrderAndBlur ==
  FilterReturned =>
    LET parts == fnCall.result.parts
        blurs == {i \in 1..Len(parts) : parts[i].kind = "blur"}
    IN  /\ \A i \in 1..Len(parts), j \in 1..Len(parts) :
             i < j => KindRank(parts[i].kind) < KindRank(parts[j].kind)
        /\ fnCall.blurMode = "full" =>
             \E i \in blurs : parts[i] = Blur(12)
        /\ (fnCall.blurMode # "full" /\ fnCall.blur > 0) =>
             \E i \in blurs : parts[i] = Blur(fnCall.blur)
        /\ (fnCall.blurMode # "full" /\ fnCall.blur <= 0) => blurs = {}

\* C24 witness: hue 90, sepia and a user blur of 5 in 'full' blur mode give
\* hue-rotate(90deg) sepia(100%) blur(12px).
C24_Witness ==
  /\ FilterReturned
  /\ fnCall.hue = 90 /\ fnCall.filter = "sepia" /\ fnCall.blur = 5
  /\ fnCall.blurMode = "full"
  /\ fnCall.result.parts = <<HueRotate(90), Preset("sepia(100%)"), Blur(12)>>

(***************************************************************************)
(* ControlsPanel.exportSettings / importSettings.  The settings file is    *)
(* the JSON document JSON.stringify writes: per property a literal, which  *)
(* is a number, a string or null.  JavaScript numbers that JSON cannot     *)
(* write (NaN, Infinity) are values of their own.                          *)
(***************************************************************************)
JSNaN == [t |-> "NaN", num |-> 0, den |-> 1, s |-> ""]
JSInfinity == [t |-> "Infinity", num |-> 0, den |-> 1, s |-> ""]
JSNull == [t |-> "null", num |-> 0, den |-> 1, s |-> ""]

\* JSON.stringify of one property value: a finite number is written as a
\* number literal, a string as a string literal, NaN and Infinity as null.
JSONLiteral(v) ==
  CASE v.t = "num" -> [kind |-> "number", num |-> v.num, den |-> v.den, chars |-> ""]
    [] v.t = "str" -> [kind |-> "string", num |-> 0, den |-> 1, chars |-> v.s]
    [] OTHER -> [kind |-> "null", num |-> 0, den |-> 1, chars |-> ""]

\* (mutation of JSONStringify: string-valued properties are left out)
JSONStringifyNumbers(value) ==
  {<<k, JSONLiteral(value[k])>> : k \in {c \in DOMAIN value : value[c].t # "str"}}

\* JSON.stringify of a settings object: its members
JSONStringify(value) == {<<k, JSONLiteral(value[k])>> : k \in DOMAIN value}

\* JSON.parse of one literal
JSONValue(literal) ==
  CASE literal.kind = "number" -> Num([num |-> literal.num, den |-> literal.den])
    [] literal.kind = "string" -> Str(literal.chars)
    [] OTHER -> JSNull

\* JSON.parse of the members of an object
JSONParse(text) == {<<member[1], JSONValue(member[2])>> : member \in text}

\* exportSettings: the `settings` member of the downloaded file
exportSettings(settings) == JSONStringify(settings)

\* importSettings, reader.onload: data.settings is an object, hence truthy,
\* and goes to onSettingsChange = updateCurrentSettings, which returns
\* early without a camera.
importSettings(store, id, text) ==
  IF id = NULL THEN store ELSE UpdateStore(store, id, JSONParse(text))

\* The settings objects that are exported.
ExportedSettings ==
  { [DEFAULT_SETTINGS EXCEPT !.zoom = z, !.pan = p, !.exposureMode = m] :
      z \in {Num(Q(100)), Num(Rat(701, 2)), JSNaN, JSInfinity},
      p \in {Num(Q(0)), Num(Q(-45)), JSNaN},
      m \in {Str("continuous"), Str("manual")} }

\* What the user changes between the export and the import.
PanelEdits ==
  { {<<"zoom", Num(Q(400))>>},
    {<<"pan", Num(Q(180))>>, <<"exposureMode", Str("single-shot")>>} }

\* The main UI is shown: a camera runs and holds a settings object.
ExportInit ==
  /\ PanelUnmounted
  /\ AIIdle
  /\ SWIdle
  /\ MediaIdle
  /\ trk = TrkIdle
  /\ zoomTrip = NoTrip
  /\ variant = "app"
  /\ \E d \in Devices, settings \in ExportedSettings :
       /\ settingsByCamera = [x \in {d} |-> settings]
       /\ currentCameraId = d
       /\ capabilities = d
       /\ streamRef = d
  /\ applyingRef = FALSE
  /\ applyDirty = FALSE
  /\ passes = <<>>
  /\ applied = {}
  /\ nEvents = 0
  /\ last = Quiet
  /\ fnCall = [fn |-> "exportImport", done |-> FALSE, phase |-> "shown"]

\* The user clicks Export.
ExportSettings ==
  /\ fnCall.fn = "exportImport"
  /\ fnCall.phase = "shown"
  /\ fnCall' = [fn |-> "exportImport", done |-> FALSE, phase |-> "exported",
                settings |-> SettingsOf(settingsByCamera, currentCameraId),
                file |-> exportSettings(SettingsOf(settingsByCamera, currentCameraId)),
                edited |-> FALSE]
  /\ UNCHANGED <<settingsVars, last, panelVars, trk, zoomTrip, aiVars, sw, media>>

\* The user changes settings after the export.
EditAfterExport(newSettings) ==
  /\ fnCall.fn = "exportImport"
  /\ fnCall.phase = "exported"
  /\ ~fnCall.edited
  /\ settingsByCamera' = UpdateStore(settingsByCamera, currentCameraId, newSettings)
  /\ fnCall' = [fnCall EXCEPT !.edited = TRUE]
  /\ UNCHANGED <<variant, currentCameraId, capabilities, streamRef, applyingRef,
                 applyDirty, passes, applied, nEvents, last, panelVars, trk, zoomTrip, aiVars, sw, media>>

\* The user picks the exported file in the Import input; reader.onload runs.
ImportSettings ==
  /\ fnCall.fn = "exportImport"
  /\ fnCall.phase = "exported"
  /\ settingsByCamera' = importSettings(settingsByCamera, currentCameraId, fnCall.file)
  /\ fnCall' = [fnCall EXCEPT !.phase = "imported", !.done = TRUE]
  /\ UNCHANGED <<variant, currentCameraId, capabilities, streamRef, applyingRef,
                 applyDirty, passes, applied, nEvents, last, panelVars, trk, zoomTrip, aiVars, sw, media>>

ExportNext ==
  \/ ExportSettings
  \/ \E newSettings \in PanelEdits : EditAfterExport(newSettings)
  \/ ImportSettings

SpecExport == ExportInit /\ [][ExportNext]_vars

Imported == fnCall.fn = "exportImport" /\ fnCall.phase = "imported"

\* Every numeric field of the exported settings object is a finite number.
ExportedFinite == \A c \in ControlSet : fnCall.settings[c].t \in {"num", "str"}

MaxDirectCalls == 2

\* The promise of a call is still of interest: the manager awaits its own
\* calls, the other callers' promises matter only while the load runs.
Outstanding(call) == call.by = "manager" \/ call.state = "loading"

\* initialize<Service> up to its first await: `if (isInitialized) return`,
\* else the load begins.
InitializeCall(svcs, pending, s, by) ==
  Append(pending, [service |-> s, by |-> by,
                   state |-> IF svcs[s].isInitialized THEN "fulfilled" ELSE "loading",
                   stale |-> FALSE])

\* destroy<Service>: close the model, reset the module variables
Destroy(svcs, destroyed) ==
  [s \in Services |->
     IF s \in destroyed THEN [ServiceDeclared EXCEPT !.destroyed = TRUE] ELSE svcs[s]]

\* An initialize call for service s has been made.
Called(svcs, s) == [svcs EXCEPT ![s].destroyed = FALSE]

\* The calls under way when their service is destroyed.
MarkStale(pending, destroyed) ==
  [i \in DOMAIN pending |->
     IF pending[i].service \in destroyed
     THEN [pending[i] EXCEPT !.stale = TRUE]
     ELSE pending[i]]

\* The load of call i ends: createFromOptions fulfils and the rest of the
\* try block runs, or one of the two awaits rejects and the catch block runs.
LoadSettles(i, ok) ==
  /\ i \in DOMAIN loads
  /\ loads[i].state = "loading"
  /\ services' =
       [services EXCEPT ![loads[i].service] =
          IF ok
          THEN [@ EXCEPT !.isInitialized = TRUE, !.model = TRUE,
                         !.initializationError = FALSE,
                         !.created = @ + (IF loads[i].stale THEN 0 ELSE 1)]
          ELSE [@ EXCEPT !.initializationError = TRUE]]
  /\ loads' = SelectSeq([loads EXCEPT ![i].state = IF ok THEN "fulfilled" ELSE "rejected"],
                        Outstanding)
  /\ UNCHANGED <<manager, hook, webcam, directCalls>>
  /\ UNCHANGED <<settingsVars, last, panelVars, trk, zoomTrip, fnCall, sw, media>>

Position(s) == CHOOSE k \in 1..Len(ServiceOrder) : ServiceOrder[k] = s

\* (mutation of AfterService: the run ends at the first failure)
AfterServiceFailFast(s, failed) ==
  IF failed \/ Position(s) = Len(ServiceOrder)
  THEN "returned"
  ELSE ServiceOrder[Position(s) + 1]

\* initializeAllServices: what follows the try/catch of service s
AfterService(s, failed) ==
  IF Position(s) = Len(ServiceOrder)
  THEN "returned"
  ELSE ServiceOrder[Position(s) + 1]

\* onProgress({service, status: 'loading'}) and the call of initialize
StartService(run, s) ==
  [run EXCEPT !.pc = s, !.progress = Append(@, <<s, "loading">>),
              !.attempts[s] = @ + 1]

\* initializeAllServices resumes after `await initialize<Service>()`
ManagerResume ==
  /\ manager.pc \in Services
  /\ \E i \in DOMAIN loads :
       /\ loads[i].by = "manager"
       /\ loads[i].state # "loading"
       /\ LET s == manager.pc
              failed == loads[i].state = "rejected"
              reported ==
                [manager EXCEPT
                   !.progress = Append(@, <<s, IF failed THEN "error" ELSE "success">>),
                   !.errors = IF failed THEN Append(@, s) ELSE @,
                   !.rejected = IF failed THEN @ \cup {s} ELSE @]
              rest == RemoveAt(loads, i)
              then == AfterService(s, failed)
          IN  IF then = "returned"
              THEN /\ manager' = [reported EXCEPT
                                    !.pc = "returned",
                                    !.result = [success |-> Len(reported.errors) = 0,
                                                errors |-> reported.errors]]
                   /\ loads' = rest
                   /\ services' = services
              ELSE /\ manager' = StartService(reported, then)
                   /\ loads' = InitializeCall(services, rest, then, "manager")
                   /\ services' = Called(services, then)
  /\ UNCHANGED <<hook, webcam, directCalls>>
  /\ UNCHANGED <<settingsVars, last, panelVars, trk, zoomTrip, fnCall, sw, media>>

\* The effect of useAIModels on mount.  Under React.StrictMode the effect
\* is run, cleaned up (destroyAllServices) and run again at once; initRef
\* makes the second run return early.
HookEffect(strict) ==
  /\ ~hook.initRef
  /\ hook' = [hook EXCEPT !.initRef = TRUE, !.isInitializing = TRUE]
  /\ manager' = StartService(manager, ServiceOrder[1])
  /\ LET started == InitializeCall(services, loads, ServiceOrder[1], "manager")
     IN  IF strict
         THEN /\ services' = Destroy(services, Services)
              /\ loads' = MarkStale(started, Services)
         ELSE /\ services' = Called(services, ServiceOrder[1])
              /\ loads' = started
  /\ UNCHANGED <<webcam, directCalls>>
  /\ UNCHANGED <<settingsVars, last, panelVars, trk, zoomTrip, fnCall, sw, media>>

\* useAIModels.initialize resumes after `await initializeAllServices(...)`:
\* setStatus, setErrors, setIsInitialized(true), and in the finally block
\* setIsInitializing(false)
HookResume ==
  /\ manager.pc = "returned"
  /\ manager' = [manager EXCEPT !.pc = "done"]
  /\ hook' = [hook EXCEPT !.isInitializing = FALSE, !.isInitialized = TRUE,
                          !.errors = manager.result.errors]
  /\ UNCHANGED <<services, loads, webcam, directCalls>>
  /\ UNCHANGED <<settingsVars, last, panelVars, trk, zoomTrip, fnCall, sw, media>>

\* Another caller calls initialize<Service>().
DirectInitialize(s) ==
  /\ directCalls < MaxDirectCalls
  /\ directCalls' = directCalls + 1
  /\ loads' = SelectSeq(InitializeCall(services, loads, s, "direct"), Outstanding)
  /\ services' = Called(services, s)
  /\ UNCHANGED <<manager, hook, webcam>>
  /\ UNCHANGED <<settingsVars, last, panelVars, trk, zoomTrip, fnCall, sw, media>>

\* aiServiceManager.reinitializeService up to its await: destroy, then
\* initialize
reinitializeService(s) ==
  /\ directCalls < MaxDirectCalls
  /\ directCalls' = directCalls + 1
  /\ services' = Called(Destroy(services, {s}), s)
  /\ loads' = InitializeCall(Destroy(services, {s}), MarkStale(loads, {s}), s, "direct")
  /\ UNCHANGED <<manager, hook, webcam>>
  /\ UNCHANGED <<settingsVars, last, panelVars, trk, zoomTrip, fnCall, sw, media>>

\* (mutation of Screen: the main UI is shown without camera permission)
ScreenWithoutPermission(isDetectorInitializing, hasPermission, isStarting, stream) ==
  IF isDetectorInitializing THEN "Initializing AI models..."
  ELSE IF isStarting /\ ~stream THEN "Starting camera..."
  ELSE "main"

\* What WebcamApp renders.
Screen(isDetectorInitializing, hasPermission, isStarting, stream) ==
  IF isDetectorInitializing THEN "Initializing AI models..."
  ELSE IF ~hasPermission THEN "Camera Access Required"
  ELSE IF isStarting /\ ~stream THEN "Starting camera..."
  ELSE "main"

Shown == Screen(hook.isInitializing, webcam.hasPermission, webcam.isStarting, webcam.stream)

\* PermissionScreen: the user clicks Grant Camera Access (the button is
\* disabled while isStarting); useWebcam.requestCameraAccess up to its await
requestCameraAccess ==
  /\ Shown = "Camera Access Required"
  /\ ~webcam.isStarting
  /\ webcam' = [webcam EXCEPT !.isStarting = TRUE, !.pending = "request"]
  /\ UNCHANGED <<services, loads, manager, hook, directCalls>>
  /\ UNCHANGED <<settingsVars, last, panelVars, trk, zoomTrip, fnCall, sw, media>>

\* The user picks a camera in the Select Camera list; useWebcam.startCamera
\* up to its await: setIsStarting(true), stopStream()
startCamera ==
  /\ Shown = "main"
  /\ webcam.pending = "none"
  /\ webcam' = [webcam EXCEPT !.isStarting = TRUE, !.stream = FALSE, !.pending = "start"]
  /\ UNCHANGED <<services, loads, manager, hook, directCalls>>
  /\ UNCHANGED <<settingsVars, last, panelVars, trk, zoomTrip, fnCall, sw, media>>

\* getUserMedia settles and requestCameraAccess / startCamera run to their
\* end: on success the stream is kept and hasPermission is set, on failure
\* hasPermission is cleared; the finally blocks clear isStarting.
CameraSettles(ok) ==
  /\ webcam.pending # "none"
  /\ webcam' = [hasPermission |-> ok, isStarting |-> FALSE,
                stream |-> IF ok THEN TRUE ELSE webcam.stream, pending |-> "none"]
  /\ UNCHANGED <<services, loads, manager, hook, directCalls>>
  /\ UNCHANGED <<settingsVars, last, panelVars, trk, zoomTrip, fnCall, sw, media>>

\* The page has loaded.
AIInit ==
  /\ PanelUnmounted
  /\ AuxIdle
  /\ trk = TrkIdle
  /\ zoomTrip = NoTrip
  /\ variant = "app"
  /\ settingsByCamera = [d \in {} |-> DEFAULT_SETTINGS]
  /\ currentCameraId = NULL
  /\ capabilities = NULL
  /\ streamRef = NULL
  /\ applyingRef = FALSE
  /\ applyDirty = FALSE
  /\ passes = <<>>
  /\ applied = {}
  /\ nEvents = 0
  /\ last = Quiet

AINext ==
  \/ \E strict \in BOOLEAN : HookEffect(strict)
  \/ \E i \in DOMAIN loads, ok \in BOOLEAN : LoadSettles(i, ok)
  \/ ManagerResume
  \/ HookResume
  \/ \E s \in Services : DirectInitialize(s)
  \/ \E s \in Services : reinitializeService(s)
  \/ requestCameraAccess
  \/ startCamera
  \/ \E ok \in BOOLEAN : CameraSettles(ok)

SpecAI == AIInit /\ [][AINext]_vars

\* Every promise settles and every continuation runs.
SpecAILive ==
  /\ SpecAI
  /\ WF_vars(\E strict \in BOOLEAN : HookEffect(strict))
  /\ WF_vars(\E i \in DOMAIN loads, ok \in BOOLEAN : LoadSettles(i, ok))
  /\ WF_vars(ManagerResume)
  /\ WF_vars(HookResume)

\* C26: for any number and interleaving of initialize calls of a service
\* with no destroy between them, a second call made while the first is
\* loading included, at most one model instance is created.
C26_InitializesOnce == \A s \in Services : services[s].created <= 1

\* The run of initializeAllServices has returned its result.
ManagerReturned == manager.pc \in {"returned", "done"}

\* The progress reports so far are, service by service in ServiceOrder,
\* 'loading' followed by one of 'success' and 'error'.
ProgressInOrder ==
  \A k \in 1..Len(manager.progress) :
    IF k % 2 = 1
    THEN manager.progress[k] = <<ServiceOrder[(k + 1) \div 2], "loading">>
    ELSE /\ manager.progress[k][1] = ServiceOrder[k \div 2]
         /\ manager.progress[k][2] \in {"success", "error"}
         /\ manager.progress[k][2] = "error" <=> ServiceOrder[k \div 2] \in manager.rejected

\* C28: initializeAllServices calls the three initialize functions in the
\* order faceDetector, segmentation, faceMesh, each exactly once even when an
\* earlier one fails; per service it reports 'loading' and then exactly one
\* of 'success' and 'error'; the result has success = true iff no call
\* failed, and one error entry per failed service.
C28_OrderedAttempts ==
  /\ ProgressInOrder
  /\ \A s \in Services : manager.attempts[s] <= 1
  /\ ManagerReturned =>
       /\ Len(manager.progress) = 2 * Len(ServiceOrder)
       /\ \A s \in Services : manager.attempts[s] = 1
       /\ manager.result.success <=> manager.rejected = {}
       /\ Len(manager.result.errors) = Cardinality(manager.rejected)
       /\ {manager.result.errors[k] : k \in 1..Len(manager.result.errors)} = manager.rejected

\* The run has returned after the first service failed and the two others
\* loaded.
C28_Witness ==
  /\ ManagerReturned
  /\ manager.rejected = {"faceDetector"}
  /\ manager.progress[2] = <<"faceDetector", "error">>
  /\ manager.progress[4] = <<"segmentation", "success">>
  /\ manager.progress[6] = <<"faceMesh", "success">>
  /\ ~manager.result.success

AISpinner == Shown = "Initializing AI models..."

CameraSpinner == Shown = "Starting camera..."

CACHE_NAME == "chromecam-studio-v2.0.0"

RUNTIME_CACHE == "chromecam-runtime"

Origin == "app.example"

FetchRequest(protocol, host, pathname, destination) ==
  [protocol |-> protocol, host |-> host, pathname |-> pathname,
   destination |-> destination]

\* The requests of the model: the page and its assets, a CDN script, a CDN
\* page, an asset whose path holds a CDN name, a media-stream URL, a video
\* and a browser-extension resource.
Requests ==
  {FetchRequest("https:", Origin, "/", "document"),
   FetchRequest("https:", Origin, "/index.html", "script"),
   FetchRequest("https:", Origin, "/assets/index.js", "script"),
   FetchRequest("https:", Origin, "/assets/index.js", "document"),
   FetchRequest("https:", "cdn.jsdelivr.net", "/npm/vision.js", "script"),
   FetchRequest("https:", "cdn.jsdelivr.net", "/", "document"),
   FetchRequest("https:", Origin, "/proxy/fonts.gstatic.com/a.woff2", "script"),
   FetchRequest("https:", Origin, "/mediastream/clip", "script"),
   FetchRequest("https:", Origin, "/assets/intro.mp4", "video"),
   FetchRequest("chrome-extension:", "abcdef", "/inject.js", "script")}

\* What fetch(request) does: it resolves with a response of some status (0
\* for an opaque response) or it rejects.
NetworkOutcomes ==
  {[resolved |-> TRUE, status |-> 200], [resolved |-> TRUE, status |-> 404],
   [resolved |-> TRUE, status |-> 0], [resolved |-> FALSE, status |-> 0]}

\* url.protocol.startsWith('http')
StartsWithHttp(protocol) == protocol \in {"http:", "https:"}

\* request.url.includes('mediastream')
IncludesMediastream(request) == request.pathname = "/mediastream/clip"

\* CDN_CACHE_PATTERNS.some(pattern => pattern.test(request.url)): the
\* patterns are searched for anywhere in the URL
MatchesCdnPattern(request) ==
  \/ request.host \in {"cdn.jsdelivr.net", "fonts.googleapis.com", "fonts.gstatic.com"}
  \/ request.pathname = "/proxy/fonts.gstatic.com/a.woff2"

\* The fetch handler: no respondWith ("none"), or the strategy it picks.
Route(request) ==
  IF ~StartsWithHttp(request.protocol) THEN "none"
  ELSE IF IncludesMediastream(request) \/ request.destination = "video" THEN "none"
  ELSE IF request.destination = "document" \/ request.pathname = "/"
          \/ request.pathname = "/index.html"
       THEN "networkFirst"
  ELSE IF MatchesCdnPattern(request) THEN "cacheFirst"
  ELSE "staleWhileRevalidate"

UrlKey(request) == <<request.protocol, request.host, request.pathname>>

IndexKey == <<"https:", Origin, "/index.html">>

\* caches.match
CachesMatch(store, key) ==
  IF \E e \in store : e.key = key
  THEN [from |-> "cache", status |-> (CHOOSE e \in store : e.key = key).status]
  ELSE NoResponse

\* cache.put on the cache `name`
CachePut(store, name, key, status) ==
  {e \in store : ~(e.cache = name /\ e.key = key)}
    \cup {[cache |-> name, key |-> key, status |-> status]}

\* (mutation of Cacheable: every response the network gives is cached)
CacheableAny(outcome) == outcome.resolved

\* networkResponse && networkResponse.status === 200
Cacheable(outcome) == outcome.resolved /\ outcome.status = 200

FromNetwork(outcome) == [from |-> "network", status |-> outcome.status]

networkFirstStrategy(request, outcome, store) ==
  IF outcome.resolved
  THEN [response |-> FromNetwork(outcome),
        caches |-> IF Cacheable(outcome)
                   THEN CachePut(store, CACHE_NAME, UrlKey(request), outcome.status)
                   ELSE store]
  ELSE [response |-> IF CachesMatch(store, UrlKey(request)) # NoResponse
                     THEN CachesMatch(store, UrlKey(request))
                     ELSE CachesMatch(store, IndexKey),
        caches |-> store]

cacheFirstStrategy(request, outcome, store) ==
  IF CachesMatch(store, UrlKey(request)) # NoResponse
  THEN [response |-> CachesMatch(store, UrlKey(request)), caches |-> store]
  ELSE IF outcome.resolved
  THEN [response |-> FromNetwork(outcome),
        caches |-> IF Cacheable(outcome)
                   THEN CachePut(store, RUNTIME_CACHE, UrlKey(request), outcome.status)
                   ELSE store]
  ELSE [response |-> [from |-> "offline", status |-> 503], caches |-> store]

staleWhileRevalidate(request, outcome, store) ==
  [response |-> IF CachesMatch(store, UrlKey(request)) # NoResponse
                THEN CachesMatch(store, UrlKey(request))
                ELSE IF outcome.resolved THEN FromNetwork(outcome)
                ELSE NoResponse,
   caches |-> IF Cacheable(outcome)
              THEN CachePut(store, RUNTIME_CACHE, UrlKey(request), outcome.status)
              ELSE store]

\* The browser's own handling of a request the worker does not answer.
NotIntercepted(store) == [response |-> NoResponse, caches |-> store]

Handle(request, outcome, store) ==
  CASE Route(request) = "networkFirst" -> networkFirstStrategy(request, outcome, store)
    [] Route(request) = "cacheFirst" -> cacheFirstStrategy(request, outcome, store)
    [] Route(request) = "staleWhileRevalidate" -> staleWhileRevalidate(request, outcome, store)
    [] OTHER -> NotIntercepted(store)

\* What the install handler leaves in CACHE_NAME: the URLs of urlsToCache
\* among the model's URLs, or nothing when cache.addAll failed.
Installed ==
  {[cache |-> CACHE_NAME, key |-> <<"https:", Origin, p>>, status |-> 200] :
     p \in {"/", "/index.html"}}

SWInit ==
  /\ PanelUnmounted
  /\ AIIdle
  /\ MediaIdle
  /\ trk = TrkIdle
  /\ zoomTrip = NoTrip
  /\ variant = "app"
  /\ settingsByCamera = [d \in {} |-> DEFAULT_SETTINGS]
  /\ currentCameraId = NULL
  /\ capabilities = NULL
  /\ streamRef = NULL
  /\ applyingRef = FALSE
  /\ applyDirty = FALSE
  /\ passes = <<>>
  /\ applied = {}
  /\ nEvents = 0
  /\ last = Quiet
  /\ fnCall = [fn |-> "none", done |-> FALSE]
  /\ \E installed \in {{}, Installed} : sw = [caches |-> installed, handled |-> FALSE]

\* A fetch event
FetchEvent(request, outcome) ==
  /\ sw' = [caches |-> Handle(request, outcome, sw.caches).caches,
            handled |-> TRUE,
            request |-> request,
            outcome |-> outcome,
            before |-> sw.caches,
            route |-> Route(request),
            response |-> Handle(request, outcome, sw.caches).response]
  /\ UNCHANGED <<settingsVars, last, panelVars, trk, zoomTrip, fnCall, aiVars, media>>

SWNext == \E request \in Requests, outcome \in NetworkOutcomes : FetchEvent(request, outcome)

SpecSW == SWInit /\ [][SWNext]_vars

\* The request of the latest fetch event was in a cache before the event.
WasCached == \E e \in sw.before : e.key = UrlKey(sw.request)

IndexWasCached == \E e \in sw.before : e.key = IndexKey

\* C29: an http(s) request that is not a media-stream or video request is
\* answered network-first when it is a document or its path is '/' or
\* '/index.html' (on a network failure from the cache, then from the cached
\* /index.html), else cache-first when its URL matches a CDN pattern, else
\* stale-while-revalidate; other requests are not intercepted; and the fetch
\* strategies write only responses of status 200 to a cache.
C29_RoutingAndCaching ==
  /\ \A e \in sw.caches : e.status = 200
  /\ sw.handled =>
       LET r == sw.request
           skipped == r.protocol \notin {"http:", "https:"}
                        \/ IncludesMediastream(r) \/ r.destination = "video"
           html == r.destination = "document" \/ r.pathname \in {"/", "/index.html"}
           written == sw.caches \ sw.before
       IN  /\ \A e \in written : e.status = 200 /\ sw.outcome.resolved /\ e.key = UrlKey(r)
           /\ skipped =>
                /\ sw.route = "none"
                /\ sw.response = NoResponse
                /\ sw.caches = sw.before
           /\ (~skipped /\ html) =>
                /\ sw.route = "networkFirst"
                /\ sw.outcome.resolved => sw.response = FromNetwork(sw.outcome)
                /\ (~sw.outcome.resolved /\ WasCached) => sw.response.from = "cache"
                /\ (~sw.outcome.resolved /\ ~WasCached) =>
                     sw.response.from = IF IndexWasCached THEN "cache" ELSE "none"
           /\ (~skipped /\ ~html /\ MatchesCdnPattern(r)) =>
                /\ sw.route = "cacheFirst"
                /\ WasCached => (sw.response.from = "cache" /\ written = {})
                /\ (~WasCached /\ sw.outcome.resolved) => sw.response = FromNetwork(sw.outcome)
                /\ (~WasCached /\ ~sw.outcome.resolved) => sw.response.status = 503
           /\ (~skipped /\ ~html /\ ~MatchesCdnPattern(r)) =>
                /\ sw.route = "staleWhileRevalidate"
                /\ WasCached => sw.response.from = "cache"
                /\ (~WasCached /\ sw.outcome.resolved) => sw.response = FromNetwork(sw.outcome)
                /\ (sw.outcome.resolved /\ sw.outcome.status = 200) => written # {} \/ WasCached

\* A CDN script that was not cached is fetched with status 200 and written
\* to the runtime cache, after a 404 for the same URL was not.
C29_Witness ==
  /\ sw.handled
  /\ sw.route = "cacheFirst"
  /\ ~WasCached
  /\ sw.outcome = [resolved |-> TRUE, status |-> 200]
  /\ [cache |-> RUNTIME_CACHE, key |-> UrlKey(sw.request), status |-> 200] \in sw.caches
  /\ sw.before # {}

\* C30: when a pass writes its staged corrections, a control whose stored
\* value is no longer the value of the pass's snapshot (it was written after
\* the snapshot was taken) keeps its stored value.
C30_FreshValueKept ==
  [][ last'.op = "passDone" =>
        \A c \in Keys(last'.changed) :
          SettingsOf(settingsByCamera, last'.dev)[c] # last'.snap[c] =>
            SettingsOf(settingsByCamera', last'.dev)[c]
              = SettingsOf(settingsByCamera, last'.dev)[c] ]_vars

\* isFaceDetectorReady / isSegmentationReady / isFaceMeshReady
isReady(service) == service.isInitialized /\ service.model

\* C31: a service that was destroyed, with no initialize call made since, is
\* not ready and holds no model instance, also when an initialize call was in
\* flight at the moment of the destroy.
C31_DestroyedStaysDown ==
  \A s \in Services :
    services[s].destroyed => ~isReady(services[s]) /\ ~services[s].model

\* C35: a service that is ready holds a model instance and stores no
\* initialization error, under any interleaving of initialize and destroy
\* calls.
C35_ReadyWithoutError ==
  \A s \in Services :
    isReady(services[s]) => services[s].model /\ ~services[s].initializationError

(***************************************************************************)
(* Passes and camera switches.                                             *)
(***************************************************************************)
\* The hardware calls a pass has made or is awaiting.
CallsOf(p) == Append(p.calls, p.call)

\* C33: an apply-pass started for a device never makes a hardware call on
\* the video track of another device: every call of a pass in flight, and
\* every call of the pass that has just finished, went to no track at all or
\* to the track of the device the pass was started for.
C33_PassKeepsToItsDevice ==
  /\ \A i \in 1..Len(passes) :
       \A j \in 1..Len(CallsOf(passes[i])) :
         CallsOf(passes[i])[j].track \in {NULL, passes[i].dev}
  /\ last.op = "passDone" =>
       \A j \in 1..Len(last.calls) : last.calls[j].track \in {NULL, last.dev}

(***************************************************************************)
(* Quiescence of the reconciliation.                                       *)
(***************************************************************************)
\* React can commit a render that is waiting: the effects run, and the guard
\* of the apply effect either returns early or starts a pass.
CommitEnabled ==
  applyDirty /\ (EffectReturnsEarly(variant, currentCameraId, capabilities,
                                    streamRef, applyingRef)
                 \/ Len(passes) < MaxPasses)

\* A pass is awaiting the promise of applyHardwareConstraint.
ResumeEnabled == passes # <<>>

\* Weak fairness of Commit and of PassResume, with the enabling condition of
\* each action written out: React commits every render it has scheduled, and
\* every promise of applyHardwareConstraint settles.
SettingsFairness ==
  /\ []<>(~CommitEnabled) \/ []<><<Commit>>_vars
  /\ []<>(~ResumeEnabled)
       \/ []<><<\E i \in 1..MaxPasses, rejected \in BOOLEAN : PassResume(i, rejected)>>_vars

\* The reconciliation under user changes and camera switches.
SettleNext ==
  \/ \E d \in Devices : StartCamera(d)
  \/ \E partial \in UserPartials : UserUpdate(partial)
  \/ Commit
  \/ \E i \in 1..MaxPasses, rejected \in BOOLEAN : PassResume(i, rejected)

SpecSettle == Init /\ [][SettleNext]_vars /\ SettingsFairness

\* The corrections the for-loop of a pass stages over controls i.. of a
\* snapshot (the loop without its awaits).
RECURSIVE StagedFrom(_, _, _, _)
StagedFrom(snap, caps, i, changedSettings) ==
  IF i > Len(Controls) THEN changedSettings
  ELSE StagedFrom(snap, caps, i + 1,
                  ProcessControl(snap, caps, Controls[i], changedSettings).changed)

\* A finished pass has staged corrections and its device is still current.
CorrectionMerged ==
  last.op = "passDone" /\ last.changed # {} /\ last.dev = currentCameraId

\* Clamping is idempotent: the snapshot of a finished pass, with the
\* corrections of that pass merged in, is one for which a pass stages
\* nothing.
ClampingIdempotent ==
  CorrectionMerged =>
    StagedFrom(Merge(last.snap, last.changed), CapsOf(last.caps), 1, {}) = {}

\* No pass is in flight and no render is waiting for the apply effect.
Quiesced == passes = <<>> /\ ~applyDirty

\* C34: once the external changes have stopped, reconciliation quiesces: a
\* pass over a snapshot with merged corrections stages no further
\* correction, and from some point on no pass is in flight and none is
\* waiting to start.
C34_Quiesces == []ClampingIdempotent /\ <>[]Quiesced

\* The pass that a merged zoom correction triggered (zoom 200 is the lower
\* end of camB's range in UI units, which no external change writes) has
\* finished without staging anything, and nothing is left to run.
C34_Witness ==
  /\ Quiesced
  /\ nEvents = MaxEvents
  /\ last.op = "passDone" /\ last.changed = {} /\ last.dev = "camB"
  /\ last.snap.zoom = Num(Q(200))
  /\ last.calls # <<>>
(***************************************************************************)
(* Portrait lighting and the face-mesh loop (specification SpecLoops).     *)
(***************************************************************************)
\* The face-mesh effect of the committed render has a loop running.
FaceMeshRunning == \E i \in 1..Len(meshLoops) : meshLoops[i].current

\* The committed render shows a live stream with portrait lighting on.
LightingOn ==
  /\ mounted
  /\ streamRef # NULL
  /\ QLess(Q(0), QOf(SettingsOf(settingsByCamera, currentCameraId).portraitLighting))

\* C36: after every commit of VideoPanel at which the face-mesh service is
\* ready, a live stream with portraitLighting > 0 has the face-mesh loop
\* running, whatever the value of faceSmoothing.
C36_LightingHasLandmarks ==
  [][((\E in \in FrameInputs, segReady \in BOOLEAN : PanelCommit(in, segReady, TRUE))
      /\ LightingOn')
     => FaceMeshRunning']_vars

(***************************************************************************)
(* calculateFaceTrackingAdjustment and the inline controller of            *)
(* renderFrame (specification SpecTrack).                                  *)
(***************************************************************************)
\* return current + (target - current) * smoothingFactor
smoothValue(current, target, smoothingFactor) ==
  QAdd(current, QMul(QSub(target, current), smoothingFactor))

\* Math.max(min, Math.min(max, value))
clamp(value, min, max) == QMax(min, QMin(max, value))

DEFAULT_FACE_TRACKING_CONFIG ==
  [smoothingFactor |-> Rat(8, 100), targetFaceHeightRatio |-> Rat(4, 10),
   panTiltSensitivity |-> Rat(4, 10), minZoom |-> Q(100), maxZoom |-> Q(400)]

\* The optional argument hardwareZoomRange: left out, or a range.
NoRange == [given |-> FALSE, min |-> Q(0), max |-> Q(0)]

GivenRange(range) == [given |-> TRUE, min |-> range.min, max |-> range.max]

calculateFaceTrackingAdjustment(faceBoundingBox, videoWidth, videoHeight, currentSettings, config, hardwareZoomRange) ==
  LET targetHeight == QMul(Q(videoHeight), config.targetFaceHeightRatio)
      heightError == QSub(targetHeight, Q(faceBoundingBox.height))
      targetZoom ==
        IF hardwareZoomRange.given
        THEN QMul(clamp(QAdd(QDiv(currentSettings.zoom, Q(100)),
                             QMul(heightError, Rat(5, 1000))),
                        hardwareZoomRange.min, hardwareZoomRange.max),
                  Q(100))
        ELSE clamp(QAdd(currentSettings.zoom, QMul(heightError, Rat(1, 10))),
                   config.minZoom, config.maxZoom)
      faceCenterX == QAdd(Q(faceBoundingBox.originX), QDiv(Q(faceBoundingBox.width), Q(2)))
      errorX == QSub(faceCenterX, QDiv(Q(videoWidth), Q(2)))
      targetPan ==
        clamp(QSub(currentSettings.pan,
                   QMul(QMul(QDiv(errorX, Q(videoWidth)), Q(180)),
                        config.panTiltSensitivity)),
              Q(-180), Q(180))
      faceCenterY == QAdd(Q(faceBoundingBox.originY), QDiv(Q(faceBoundingBox.height), Q(2)))
      errorY == QSub(faceCenterY, QDiv(Q(videoHeight), Q(2)))
      targetTilt ==
        clamp(QAdd(currentSettings.tilt,
                   QMul(QMul(QDiv(errorY, Q(videoHeight)), Q(90)),
                        config.panTiltSensitivity)),
              Q(-90), Q(90))
  IN PanTiltZoom(smoothValue(currentSettings.pan, targetPan, config.smoothingFactor),
                 smoothValue(currentSettings.tilt, targetTilt, config.smoothingFactor),
                 smoothValue(currentSettings.zoom, targetZoom, config.smoothingFactor))

\* The hardware range a caller passes: the zoom capability when zoom is a
\* hardware control and the capability exists, nothing otherwise.
HardwareZoomRange(caps) ==
  IF isHardwareControl(caps, "zoom") /\ "zoom" \in DOMAIN CapsOf(caps)
  THEN GivenRange(CapsOf(caps).zoom) ELSE NoRange

\* Video sizes the two controllers are compared on.
VideoSizes == {<<100, 100>>, <<640, 480>>, <<1280, 720>>, <<1, 3>>}

\* What the inline controller hands to onSettingsChange, as pan/tilt/zoom.
InlineAdjustment(boundingBox, size, current, caps) ==
  PanTiltZoomOf(Merge(DEFAULT_SETTINGS,
                      TrackAdjust(boundingBox, size[1], size[2],
                                  [pan |-> Num(current.pan), tilt |-> Num(current.tilt),
                                   zoom |-> Num(current.zoom)],
                                  isHardwareControl(caps, "zoom"), CapsOf(caps))))

\* C37: the inline controller of renderFrame and
\* calculateFaceTrackingAdjustment with the default config give the same
\* pan, tilt and zoom: the settings a tick has written are what the function
\* returns for the tick's box and the settings before it, and the two agree
\* on that box and those settings for every video size.
C37_SameAdjustment ==
  trk.n >= 1 =>
    /\ PanTiltZoomOf(SettingsOf(settingsByCamera, currentCameraId))
         = calculateFaceTrackingAdjustment(trk.boundingBox, Video.width, Video.height,
                                           trk.prev, DEFAULT_FACE_TRACKING_CONFIG,
                                           HardwareZoomRange(capabilities))
    /\ \A size \in VideoSizes :
         InlineAdjustment(trk.boundingBox, size, trk.prev, capabilities)
           = calculateFaceTrackingAdjustment(trk.boundingBox, size[1], size[2],
                                             trk.prev, DEFAULT_FACE_TRACKING_CONFIG,
                                             HardwareZoomRange(capabilities))

\* C37 witness: a tick on a camera with hardware zoom has moved pan, tilt and
\* zoom.
C37_Witness ==
  /\ trk.n >= 1
  /\ HardwareZoomRange(capabilities).given
  /\ LET cur == PanTiltZoomOf(SettingsOf(settingsByCamera, currentCameraId))
     IN  cur.pan # trk.prev.pan /\ cur.tilt # trk.prev.tilt /\ cur.zoom # trk.prev.zoom

(***************************************************************************)
(* useWebcam.startCamera, stream by stream (specification SpecCamera).     *)
(* media.streams lists the MediaStreams getUserMedia has handed out, in    *)
(* the order they were obtained; streamRef is the index of the stream      *)
(* streamRef.current holds, 0 for null.  startCamera is a function of the  *)
(* hook: a call can be made while an earlier call awaits getUserMedia.     *)
(***************************************************************************)
MaxCameraCalls == 3

\* useWebcam.stopStream: the tracks of the current stream are stopped and
\* streamRef.current is cleared; nothing happens without a current stream.
StopCurrentStream(m) ==
  IF m.streamRef # 0
  THEN [m EXCEPT !.streams[m.streamRef].stopped = TRUE, !.streamRef = 0]
  ELSE m

\* getUserMedia resolved in startCamera: streamRef.current = newStream;
\* setStream(newStream); setHasPermission(true)
StreamObtained(m, deviceId) ==
  [m EXCEPT !.streams = Append(@, [deviceId |-> deviceId, stopped |-> FALSE]),
            !.streamRef = Len(m.streams) + 1,
            !.hasPermission = TRUE]

\* startCamera(deviceId) up to its await: setIsStarting(true); stopStream();
\* getUserMedia is called.
CameraCall(deviceId) ==
  /\ media.nCalls < MaxCameraCalls
  /\ media' = [StopCurrentStream(media) EXCEPT !.isStarting = TRUE,
                                                !.calls = Append(@, deviceId),
                                                !.nCalls = @ + 1]
  /\ UNCHANGED <<settingsVars, last, panelVars, trk, zoomTrip, fnCall, aiVars, sw>>

\* The getUserMedia promise of call i settles and startCamera runs to its
\* end: the new stream becomes the current one, or the catch block clears
\* hasPermission; finally setIsStarting(false).
GetUserMediaSettles(i, ok) ==
  /\ i \in 1..Len(media.calls)
  /\ LET m == [media EXCEPT !.calls = RemoveAt(@, i), !.isStarting = FALSE]
     IN  media' = IF ok THEN StreamObtained(m, media.calls[i])
                        ELSE [m EXCEPT !.hasPermission = FALSE]
  /\ UNCHANGED <<settingsVars, last, panelVars, trk, zoomTrip, fnCall, aiVars, sw>>

CameraNext ==
  \/ \E d \in Devices : CameraCall(d)
  \/ \E i \in 1..MaxCameraCalls, ok \in BOOLEAN : GetUserMediaSettles(i, ok)

SpecCamera == AIInit /\ [][CameraNext]_vars

\* The streams whose tracks have not been stopped.
LiveStreams == {i \in 1..Len(media.streams) : ~media.streams[i].stopped}

\* C32: once every startCamera call has finished, every MediaStream
\* obtained other than the current one has had its tracks stopped, so at
\* most one stream is live.
C32_OneLiveStream ==
  media.calls = <<>> =>
    /\ LiveStreams \subseteq {media.streamRef}
    /\ Cardinality(LiveStreams) <= 1

====
